---- MODULE Spec2Model ----
(***************************************************************************)
(* Token lifecycle of ngx-auth-service.                                    *)
(*                                                                         *)
(* Two AuthService variants are modelled side by side, selected by the     *)
(* variable `variant`:                                                     *)
(*   "refresh" : the refresh-capable AuthService (cookie store, silent     *)
(*               refresh, single ten-minute warning, forbidden page)       *)
(*   "dual"    : projects/lib/src/lib/auth.service.ts (cookie store, no    *)
(*               refresh, ten- and five-minute warnings)                   *)
(*                                                                         *)
(* A state is the service object's fields, the browser state the service   *)
(* reads and writes (query string, cookies, location, popup overlay),      *)
(* the pending setTimeout callbacks, the refresh requests in flight and    *)
(* the wall clock in seconds.  `last` records what the most recent         *)
(* handler did and returned, so that postconditions are state predicates.  *)
(* `refreshLog` is the history of the refresh requests the service starts. *)
(*                                                                         *)
(* Further specifications run the parts that stand beside the token        *)
(* lifecycle, each over its own inputs:                                    *)
(*   WindowSpec        the clamp of refreshBeforeExpireInMinutes           *)
(*   LeavingSpec       responses that arrive while the page is being left  *)
(*   StoreSpec         the persisted store at the level of characters      *)
(*   DecodeSpec        _decodeJWT at the level of token segments           *)
(*   AuthUrlSpec       the URL _auth navigates to                          *)
(*   ConfigSpec        provideAuthService and mergeAuthServiceConfig       *)
(*   RequestSpec       RequestService beside the refresh-capable service   *)
(*   ApiSpec           every kind of request RequestService can make       *)
(*   TokenServiceSpec  the local-storage TokenService                      *)
(***************************************************************************)
EXTENDS Integers, Sequences, FiniteSets, TLC

VARIABLES
    variant,            \* which AuthService class is running
    cfg,                \* the injected AuthServiceConfig
    pc,                 \* "init" before the constructor ran, then "running"
    now,                \* Math.floor(Date.now() / 1000)
    token,              \* this.token
    refreshToken,       \* this.refreshToken
    hasToken,           \* this.hasToken
    tokenInfo,          \* this.tokenInfo
    refreshTimeoutId,   \* this.refreshTimeoutId
    tenMinuteTimeoutId, \* this.tenMinuteTimeoutId
    redirectTimeoutId,  \* this.redirectTimeoutId
    timers,             \* pending setTimeout callbacks
    inflight,           \* POST <authURL>/refresh requests awaiting a response
    cookies,            \* document.cookie: <key> and <key>_refresh
    url,                \* window.location.search: token and refresh_token
    location,           \* where the browser is: "app" until a navigation
    popup,              \* the popupService_overlay element
    calls,              \* public-method calls the application has made
    adoptedValid,       \* history: a decodable, unexpired token was adopted
    refreshLog,         \* history: the refresh requests the service started
    last,               \* the most recent handler and its outcome
    input,              \* the arguments of the function a specification runs
    output,             \* what that function returned
    documentCookie,     \* document.cookie at the level of characters
    localStorage,       \* window.localStorage: the item under each key
    requestService,     \* the RequestService object
    http                \* HttpClient: the request in progress and the log

\* The AuthService object and the browser state it works on.
authVars == <<variant, cfg, pc, now, token, refreshToken, hasToken, tokenInfo,
              refreshTimeoutId, tenMinuteTimeoutId, redirectTimeoutId, timers,
              inflight, cookies, url, location, popup, calls, adoptedValid,
              refreshLog, last>>

\* What stands beside it.
others == <<input, output, documentCookie, localStorage, requestService, http>>

vars == <<authVars, others>>

----------------------------------------------------------------------------
(* Bounds *)

TickStep == 600         \* seconds the clock advances per Tick
MaxNow == 3600          \* the clock stops here
ShortExp == 600         \* exp of a short-lived token
LongExp == 3600         \* exp of a long-lived token
MaxInflight == 2        \* refresh requests that may overlap
MaxCalls == 1           \* calls of getTokens, getTokenInfo, showPopup and
                        \* tryToRefreshToken the application makes
MaxConfigured == 120    \* largest |refreshBeforeExpireInMinutes| configured

(* Program constants *)

tenMinutesInSeconds == 600
fiveMinutes == 300
DefaultRefreshBefore == 30
MinRefreshBefore == 11
MaxRefreshBefore == 59

----------------------------------------------------------------------------
(* Tokens.  A token string is represented by what decoding it yields:      *)
(*   "none"   undefined or the empty string                                *)
(*   "bad"    a string _decodeJWT cannot decode, such as "not-a-jwt"       *)
(*   "jwt"    a payload with exp, username and database                    *)
(*   "noexp"  a payload with username but without exp                      *)
(*   "nouser" a payload with exp but without username                      *)

NoToken == [kind |-> "none", exp |-> 0]
BadToken == [kind |-> "bad", exp |-> 0]
NoExpToken == [kind |-> "noexp", exp |-> 0]
Jwt(e) == [kind |-> "jwt", exp |-> e]
NoUserJwt(e) == [kind |-> "nouser", exp |-> e]

\* exp values: already expired at load, within every refresh window and
\* within the ten-minute warning, and beyond every refresh window.
ExpValues == {0, ShortExp, LongExp}
Tokens ==
    {BadToken, NoExpToken, NoUserJwt(LongExp)} \cup {Jwt(e) : e \in ExpValues}
ResponseTokens == {BadToken, Jwt(ShortExp), Jwt(LongExp)}

\* Refresh tokens are opaque strings: "r1" comes with the page, "r2" with a
\* refresh response; "none" is undefined or the empty string.
NoRefresh == "none"

Truthy(t) == t.kind # "none"

NoInfo == [set |-> FALSE, nan |-> FALSE, inSeconds |-> 0, inMinutes |-> 0]

----------------------------------------------------------------------------
(* The service object and the browser as one record, so that the private   *)
(* methods can be written as functions from state to state.                *)

World ==
    [token |-> token, refreshToken |-> refreshToken, hasToken |-> hasToken,
     tokenInfo |-> tokenInfo, refreshTimeoutId |-> refreshTimeoutId,
     tenMinuteTimeoutId |-> tenMinuteTimeoutId,
     redirectTimeoutId |-> redirectTimeoutId, timers |-> timers,
     inflight |-> inflight, cookies |-> cookies, url |-> url,
     location |-> location, popup |-> popup]

Commit(w) ==
    /\ token' = w.token
    /\ refreshToken' = w.refreshToken
    /\ hasToken' = w.hasToken
    /\ tokenInfo' = w.tokenInfo
    /\ refreshTimeoutId' = w.refreshTimeoutId
    /\ tenMinuteTimeoutId' = w.tenMinuteTimeoutId
    /\ redirectTimeoutId' = w.redirectTimeoutId
    /\ timers' = w.timers
    /\ inflight' = w.inflight
    /\ cookies' = w.cookies
    /\ url' = w.url
    /\ location' = w.location
    /\ popup' = w.popup

----------------------------------------------------------------------------
(* Codec and token info *)

\* _decodeJWT: the payload, or null (ok = FALSE) when split, atob or
\* JSON.parse throws.
decodeJWT(tok) ==
    [ok |-> tok.kind \in {"jwt", "noexp", "nouser"},
     hasExp |-> tok.kind \in {"jwt", "nouser"},
     hasUser |-> tok.kind \in {"jwt", "noexp"},
     exp |-> tok.exp]

\* The tokenInfo object built from a payload at the current time.  A payload
\* without exp gives NaN for both numbers.
MakeInfo(d) ==
    IF d.hasExp
    THEN [set |-> TRUE, nan |-> FALSE, inSeconds |-> d.exp - now,
          inMinutes |-> (d.exp - now) \div 60]
    ELSE [set |-> TRUE, nan |-> TRUE, inSeconds |-> 0, inMinutes |-> 0]

\* _extractInfoFromToken(token = ""): decodes `token || this.token`, stores
\* tokenInfo; throws when the payload is null or, in the refresh-capable
\* class, when username.toLowerCase() cannot be called.
extractInfoFromToken(w, arg) ==
    LET tok == IF Truthy(arg) THEN arg ELSE w.token
        d == decodeJWT(tok)
        threw == \/ ~d.ok
                 \/ (variant = "refresh" /\ ~d.hasUser)
    IN  [threw |-> threw,
         w |-> IF threw THEN w ELSE [w EXCEPT !.tokenInfo = MakeInfo(d)]]

\* Mutant: the check `inSeconds < 0`, which lets a token through at exp = now.
isTokenExpiredStrict(w, arg) ==
    LET r == extractInfoFromToken(w, arg)
    IN  [expired |-> IF r.threw THEN TRUE
                     ELSE (~r.w.tokenInfo.nan /\ r.w.tokenInfo.inSeconds < 0),
         w |-> r.w]

\* _isTokenExpired: inSeconds <= 0 after a fresh extraction (NaN <= 0 is
\* false), true when the extraction throws.  The extraction's tokenInfo stays.
isTokenExpired(w, arg) ==
    LET r == extractInfoFromToken(w, arg)
    IN  [expired |-> IF r.threw THEN TRUE
                     ELSE (~r.w.tokenInfo.nan /\ r.w.tokenInfo.inSeconds <= 0),
         w |-> r.w]

----------------------------------------------------------------------------
(* Timers *)

UsedIds(w) ==
    {t.id : t \in w.timers}
        \cup {w.refreshTimeoutId, w.tenMinuteTimeoutId, w.redirectTimeoutId}

\* The id setTimeout returns: positive, and different from every id still
\* held by the page.
FreshId(w) ==
    CHOOSE i \in 1..(Cardinality(UsedIds(w)) + 1) :
        /\ i \notin UsedIds(w)
        /\ \A j \in 1..(i - 1) : j \in UsedIds(w)

\* setTimeout(callback kind, delay in seconds)
setTimeout(w, kind, delay) ==
    [w EXCEPT !.timers = @ \cup
        {[id |-> FreshId(w), kind |-> kind, delay |-> delay, due |-> now + delay]}]

\* clearTimeout(id)
clearTimeout(w, id) ==
    [w EXCEPT !.timers = {t \in @ : t.id # id}]

\* Mutant: the redirect timer is forgotten when the timers are cleared.
clearTimersKeepRedirect(w) ==
    LET w1 == IF w.refreshTimeoutId # 0
              THEN [clearTimeout(w, w.refreshTimeoutId) EXCEPT !.refreshTimeoutId = 0]
              ELSE w
    IN  IF w1.tenMinuteTimeoutId # 0
        THEN [clearTimeout(w1, w1.tenMinuteTimeoutId) EXCEPT !.tenMinuteTimeoutId = 0]
        ELSE w1

\* _clearTimers: each handle that is set is cleared and nulled.
clearTimers(w) ==
    LET w1 == IF w.refreshTimeoutId # 0
              THEN [clearTimeout(w, w.refreshTimeoutId) EXCEPT !.refreshTimeoutId = 0]
              ELSE w
        w2 == IF w1.tenMinuteTimeoutId # 0
              THEN [clearTimeout(w1, w1.tenMinuteTimeoutId) EXCEPT !.tenMinuteTimeoutId = 0]
              ELSE w1
    IN  IF w2.redirectTimeoutId # 0
        THEN [clearTimeout(w2, w2.redirectTimeoutId) EXCEPT !.redirectTimeoutId = 0]
        ELSE w2

----------------------------------------------------------------------------
(* Popup and navigation *)

\* _showPopup(type, fixedTime): replaces the overlay element.  Of the
\* overlay only its type is kept; its markup and buttons are presentation.
showPopupElement(w, type, fixedTime) ==
    [w EXCEPT !.popup = type]

\* _auth(type): window.location.href = <authURL>/<type>?next=...
auth(w, type) == [w EXCEPT !.location = type]

\* goToForbidden(route): to <baseURL>/auth_unauthorized?route=..., unless the
\* page is the forbidden page already.
goToForbidden(w) ==
    IF w.url.forbidden THEN w ELSE [w EXCEPT !.location = "forbidden"]

----------------------------------------------------------------------------
(* Persisted store (cookies) *)

\* Mutant: the refresh token is never written to the store.
setCookiesTokenOnly(w, tok, rt) == [w EXCEPT !.cookies.token = tok]

\* _setCookies / _setCookie: <key> always, <key>_refresh only for a
\* non-empty refresh token.
setCookies(w, tok, rt) ==
    LET w1 == [w EXCEPT !.cookies.token = tok]
    IN  IF variant = "refresh" /\ rt # NoRefresh
        THEN [w1 EXCEPT !.cookies.refresh = rt]
        ELSE w1

\* _removeCookie(<key>_refresh)
removeRefreshCookie(w) == [w EXCEPT !.cookies.refresh = NoRefresh]

\* Mutant: only the token cookie is removed.
removeCookiesKeepRefresh(w) == [w EXCEPT !.cookies.token = NoToken]

\* _removeCookies (refresh-capable) / _removeCookie (dual-warning)
removeCookies(w) ==
    IF variant = "refresh"
    THEN [w EXCEPT !.cookies = [token |-> NoToken, refresh |-> NoRefresh]]
    ELSE [w EXCEPT !.cookies.token = NoToken]

\* Mutant: the refresh token is dropped from the store but kept in memory.
disableRefreshCookieOnly(w) == removeRefreshCookie(w)

\* _disableRefresh
disableRefresh(w) ==
    removeRefreshCookie([w EXCEPT !.refreshToken = NoRefresh])

----------------------------------------------------------------------------
(* Token refresh: the request *)

Origins == {"arm", "timer", "user"}

NoRequests == [o \in Origins |-> 0]

InFlight(w) == w.inflight["arm"] + w.inflight["timer"] + w.inflight["user"]

\* Mutant: the request is sent whether or not a refresh token is held.
tryToRefreshTokenSendBlind(w, origin) ==
    [sent |-> TRUE, w |-> [w EXCEPT !.inflight[origin] = @ + 1]]

\* tryToRefreshToken up to its await: without a refresh token it resolves to
\* false at once (sent = FALSE); otherwise the POST to <authURL>/refresh is
\* in flight.  Responses arrive in any order, so the requests in flight are
\* counted by who awaits the result:
\*   "arm"   _scheduleExpiryPopup's immediate attempt (shows the popup on false)
\*   "timer" the refresh timer's callback (ignores the result)
\*   "user"  a caller of the public method
tryToRefreshTokenSend(w, origin) ==
    IF w.refreshToken = NoRefresh
    THEN [sent |-> FALSE, w |-> w]
    ELSE [sent |-> TRUE, w |-> [w EXCEPT !.inflight[origin] = @ + 1]]

----------------------------------------------------------------------------
(* Expiry scheduler *)

\* Mutant: the configured window is used as it is, without the clamp.
refreshBeforeMinutesUnclamped(configured) ==
    IF configured = 0 THEN DefaultRefreshBefore ELSE configured

\* refreshBefore in _scheduleExpiryPopup: `|| 30`, then clamped to [11, 59].
\* An unset value is 0 here (0 is falsy as well).
refreshBeforeMinutes(configured) ==
    LET a == IF configured = 0 THEN DefaultRefreshBefore ELSE configured
        b == IF a < MinRefreshBefore THEN MinRefreshBefore ELSE a
    IN  IF b > MaxRefreshBefore THEN MaxRefreshBefore ELSE b

\* Mutant: the warning timer is armed five minutes before expiry.
scheduleExpiryPopupRefreshLate(w, t) ==
    LET refreshBeforeInSeconds ==
            refreshBeforeMinutes(cfg.refreshBeforeExpireInMinutes) * 60
    IN  IF t > refreshBeforeInSeconds
        THEN LET w1 == [setTimeout(w, "refresh", t - refreshBeforeInSeconds)
                            EXCEPT !.refreshTimeoutId = FreshId(w)]
             IN  IF cfg.showRenewBeforeTenMin
                 THEN [setTimeout(w1, "ten", t - fiveMinutes)
                            EXCEPT !.tenMinuteTimeoutId = FreshId(w1)]
                 ELSE w1
        ELSE LET r == tryToRefreshTokenSend(w, "arm")
             IN  IF r.sent THEN r.w ELSE showPopupElement(r.w, "expiry", 0)

\* _scheduleExpiryPopup of the refresh-capable class (single warning).
scheduleExpiryPopupRefresh(w, t) ==
    LET refreshBeforeInSeconds ==
            refreshBeforeMinutes(cfg.refreshBeforeExpireInMinutes) * 60
    IN  IF t > refreshBeforeInSeconds
        THEN LET w1 == [setTimeout(w, "refresh", t - refreshBeforeInSeconds)
                            EXCEPT !.refreshTimeoutId = FreshId(w)]
             IN  IF cfg.showRenewBeforeTenMin
                 THEN [setTimeout(w1, "ten", t - tenMinutesInSeconds)
                            EXCEPT !.tenMinuteTimeoutId = FreshId(w1)]
                 ELSE w1
        ELSE LET r == tryToRefreshTokenSend(w, "arm")
             IN  IF r.sent THEN r.w ELSE showPopupElement(r.w, "expiry", 0)

\* Mutant: the timers are armed down to five minutes before expiry.
scheduleExpiryPopupDualLate(w, t) ==
    IF t > fiveMinutes
    THEN LET w1 == IF cfg.showRenewBeforeTenMin
                   THEN setTimeout(w, "ten", t - tenMinutesInSeconds)
                   ELSE w
         IN  IF cfg.showRenewBeforeFiveMin
             THEN setTimeout(w1, "five", t - fiveMinutes)
             ELSE w1
    ELSE showPopupElement(w, "expiry", 0)

\* Mutant: the ten-minute warning is armed whatever its flag says.
scheduleExpiryPopupDualAlways(w, t) ==
    IF t > tenMinutesInSeconds
    THEN LET w1 == setTimeout(w, "ten", t - tenMinutesInSeconds)
         IN  IF cfg.showRenewBeforeFiveMin
             THEN setTimeout(w1, "five", t - fiveMinutes)
             ELSE w1
    ELSE showPopupElement(w, "expiry", 0)

\* _scheduleExpiryPopup of the dual-warning class: no handles are kept.
scheduleExpiryPopupDual(w, t) ==
    IF t > tenMinutesInSeconds
    THEN LET w1 == IF cfg.showRenewBeforeTenMin
                   THEN setTimeout(w, "ten", t - tenMinutesInSeconds)
                   ELSE w
         IN  IF cfg.showRenewBeforeFiveMin
             THEN setTimeout(w1, "five", t - fiveMinutes)
             ELSE w1
    ELSE showPopupElement(w, "expiry", 0)

scheduleExpiryPopup(w, t) ==
    IF variant = "refresh"
    THEN scheduleExpiryPopupRefresh(w, t)
    ELSE scheduleExpiryPopupDual(w, t)

\* _scheduleRedirect
scheduleRedirect(w, t) ==
    IF variant = "refresh"
    THEN [setTimeout(w, "redirect", t) EXCEPT !.redirectTimeoutId = FreshId(w)]
    ELSE setTimeout(w, "redirect", t)

\* Mutant: the redirect is armed with inMinutes where inSeconds is meant.
scheduleExpirationMinutes(w) ==
    LET w0 == IF variant = "refresh" THEN clearTimers(w) ELSE w
    IN  IF w0.tokenInfo.set /\ ~w0.tokenInfo.nan /\ w0.tokenInfo.inSeconds > 0
        THEN scheduleRedirect(
                 scheduleExpiryPopup(w0, w0.tokenInfo.inSeconds),
                 w0.tokenInfo.inMinutes)
        ELSE w0

\* _scheduleExpiration: the refresh-capable class clears the timers first;
\* timers are armed only for inSeconds > 0 (NaN > 0 is false).
scheduleExpiration(w) ==
    LET w0 == IF variant = "refresh" THEN clearTimers(w) ELSE w
    IN  IF w0.tokenInfo.set /\ ~w0.tokenInfo.nan /\ w0.tokenInfo.inSeconds > 0
        THEN scheduleRedirect(
                 scheduleExpiryPopup(w0, w0.tokenInfo.inSeconds),
                 w0.tokenInfo.inSeconds)
        ELSE w0

----------------------------------------------------------------------------
(* Token state *)

\* _setTokens (refresh-capable) / _setToken (dual-warning): the fields are
\* assigned before the extraction that may throw; the return value is ok.
setTokens(w, tok, rt) ==
    LET w1 == [w EXCEPT !.token = tok,
                        !.refreshToken =
                            IF variant = "refresh" /\ rt # NoRefresh THEN rt ELSE @,
                        !.hasToken = TRUE]
        r == extractInfoFromToken(w1, NoToken)
    IN  IF r.threw
        THEN [ok |-> FALSE, w |-> r.w]
        ELSE [ok |-> TRUE, w |-> scheduleExpiration(r.w)]

----------------------------------------------------------------------------
(* Initialization *)

\* Mutant: the forbidden page is treated like any other page.
checkForbiddenPageIgnored(w, cookieToken) == [proceed |-> TRUE, w |-> w]

\* checkForbiddenPage(cookieToken): on the forbidden page the check of the
\* persisted token decides between a bounce to baseURL and nothing at all.
checkForbiddenPage(w, cookieToken) ==
    IF ~w.url.forbidden
    THEN [proceed |-> TRUE, w |-> w]
    ELSE LET e == isTokenExpired(w, cookieToken)
         IN  [proceed |-> FALSE,
              w |-> IF e.expired THEN [e.w EXCEPT !.location = "base"] ELSE e.w]

\* Mutant: a persisted token is adopted whenever the cookie is present.
checkCookieTokenTrusting(w) ==
    LET cookieToken == w.cookies.token
    IN  IF Truthy(cookieToken)
        THEN LET r == setTokens(w, cookieToken, w.cookies.refresh)
             IN  [source |-> "cookie", adopted |-> cookieToken,
                  refresh |-> w.cookies.refresh, ok |-> r.ok, w |-> r.w]
        ELSE [source |-> "none", adopted |-> NoToken, refresh |-> NoRefresh,
              ok |-> FALSE,
              w |-> IF ~cfg.disable THEN auth(w, "login") ELSE w]

\* The part of _checkToken after the URL branch: the persisted token is
\* adopted when it is present and unexpired, else login unless disabled.
checkCookieToken(w) ==
    LET cookieToken == w.cookies.token
        e == isTokenExpired(w, cookieToken)
    IN  IF Truthy(cookieToken) /\ ~e.expired
        THEN LET r == setTokens(e.w, cookieToken, w.cookies.refresh)
             IN  [source |-> "cookie", adopted |-> cookieToken,
                  refresh |-> w.cookies.refresh, ok |-> r.ok, w |-> r.w]
        ELSE [source |-> "none", adopted |-> NoToken, refresh |-> NoRefresh,
              ok |-> FALSE,
              w |-> LET w1 == IF Truthy(cookieToken) THEN e.w ELSE w
                    IN  IF ~cfg.disable THEN auth(w1, "login") ELSE w1]

\* _checkToken.  The refresh-capable class strips the query string with
\* history.replaceState after adopting the URL token; the dual-warning class
\* leaves the URL alone, stores no refresh token and has no forbidden page.
checkToken(w) ==
    IF Truthy(w.url.token)
    THEN LET w1 == setCookies(w, w.url.token, w.url.refresh)
             r == setTokens(w1, w.url.token, w.url.refresh)
         IN  [source |-> "url", adopted |-> w.url.token,
              refresh |-> w.url.refresh, ok |-> r.ok,
              w |-> IF variant = "refresh"
                    THEN [r.w EXCEPT !.url.token = NoToken, !.url.refresh = NoRefresh]
                    ELSE r.w]
    ELSE IF variant = "refresh"
         THEN LET f == checkForbiddenPage(w, w.cookies.token)
              IN  IF f.proceed
                  THEN checkCookieToken(f.w)
                  ELSE [source |-> "none", adopted |-> NoToken,
                        refresh |-> NoRefresh, ok |-> FALSE, w |-> f.w]
         ELSE checkCookieToken(w)

\* constructor: the refresh-capable class returns before _checkToken when
\* _disable is set; the dual-warning class always checks.
constructor(w) ==
    IF variant = "refresh" /\ cfg.disable
    THEN [source |-> "none", adopted |-> NoToken, refresh |-> NoRefresh,
          ok |-> FALSE, w |-> w]
    ELSE checkToken(w)

\* Whether setTokens returned true for a token that is not expired now.
AdoptedUnexpired(r) ==
    /\ Truthy(r.adopted)
    /\ r.ok
    /\ (r.w.tokenInfo.nan \/ r.w.tokenInfo.inSeconds > 0)

----------------------------------------------------------------------------
(* Inputs *)

RefreshWindows == {0, 5, 90}    \* refreshBeforeExpireInMinutes; 0 is unset

Configs ==
    [v : {"refresh"}, disable : BOOLEAN, showRenewBeforeTenMin : BOOLEAN,
     showRenewBeforeFiveMin : {FALSE}, refreshBeforeExpireInMinutes : RefreshWindows]
    \cup
    [v : {"dual"}, disable : BOOLEAN, showRenewBeforeTenMin : BOOLEAN,
     showRenewBeforeFiveMin : BOOLEAN, refreshBeforeExpireInMinutes : {0}]

RefreshOptions(v) == IF v = "refresh" THEN {NoRefresh, "r1"} ELSE {NoRefresh}

\* The pages the service is constructed on: a return from the login server
\* with the token in the query string (over an empty or a still valid
\* cookie), or a load without token parameter, on the forbidden page or not.
Pages(v) ==
    [url : [token : Tokens, refresh : {NoRefresh, "r1"}, forbidden : {FALSE}],
     cookies : {[token |-> NoToken, refresh |-> NoRefresh]}
               \cup [token : {Jwt(LongExp)}, refresh : RefreshOptions(v) \ {NoRefresh}]]
    \cup
    [url : [token : {NoToken}, refresh : {NoRefresh},
            forbidden : IF v = "refresh" THEN BOOLEAN ELSE {FALSE}],
     cookies : [token : Tokens \cup {NoToken}, refresh : RefreshOptions(v)]]

\* What the auth server may answer to POST /refresh.
Responses ==
    {[kind |-> "error", access |-> NoToken, refresh |-> NoRefresh],
     [kind |-> "empty", access |-> NoToken, refresh |-> NoRefresh]}
    \cup [kind : {"tokens"}, access : ResponseTokens, refresh : {NoRefresh, "r2"}]

----------------------------------------------------------------------------
(* History of the refresh requests the service starts by itself: from      *)
(* _scheduleExpiryPopup at arm-time ("arm") or from the refresh timer      *)
(* ("timer").                                                              *)
(*   sinceAdoption  such requests since the last call of _setTokens (0, 1  *)
(*                  or "2 and more")                                       *)
(*   started        the last step started one                              *)
(*   everFailed     some refresh attempt has failed                        *)
(*   failedSince    an attempt has failed and no refresh token was adopted *)
(*                  afterwards                                             *)

NoLog ==
    [sinceAdoption |-> 0, started |-> FALSE, everFailed |-> FALSE,
     failedSince |-> FALSE]

\* The service's own requests in flight.
OwnRequests(w) == w.inflight["arm"] + w.inflight["timer"]

\* The log after a step that took the world from w0 to w1 without calling
\* _setTokens.
LogStep(w0, w1) ==
    LET started == OwnRequests(w1) > OwnRequests(w0)
    IN  [refreshLog EXCEPT
            !.started = started,
            !.sinceAdoption = IF started /\ @ < 2 THEN @ + 1 ELSE @]

\* The log after a step that called _setTokens(tok, rt).
LogAdoption(w0, w1, rt) ==
    LET started == OwnRequests(w1) > OwnRequests(w0)
    IN  [refreshLog EXCEPT
            !.started = started,
            !.sinceAdoption = IF started THEN 1 ELSE 0,
            !.failedSince = IF rt # NoRefresh THEN FALSE ELSE @]

\* The log after a refresh attempt failed.
LogFailure ==
    [refreshLog EXCEPT !.started = FALSE, !.everFailed = TRUE,
                       !.failedSince = TRUE]

----------------------------------------------------------------------------
(* What stands beside the AuthService, at rest.                            *)

Idle == [op |-> "none"]

\* localStorage without items: getItem returns null for every key.
NoItems == [authToken |-> "null"]

\* A key an object does not have.
Undefined == <<"undefined">>

\* RequestService before its constructor ran.
NotConstructed ==
    [constructed |-> FALSE, token |-> NoToken,
     apiSettings |-> [set |-> FALSE, apiURL |-> Undefined,
                      transformKeys |-> FALSE, retryCount |-> 0]]

\* customApiSettings when makeRequest is called without it.
NoCustom ==
    [given |-> FALSE, keys |-> {}, apiURL |-> Undefined,
     transformKeys |-> FALSE, retryCount |-> 0]

\* HttpClient with no request made.
NoRequest ==
    [busy |-> FALSE, made |-> 0, method |-> "none", custom |-> NoCustom,
     held |-> NoToken, stored |-> NotConstructed.apiSettings,
     attempts |-> 0, failures |-> 0,
     bearer |-> NoToken, apiURL |-> Undefined, retryCount |-> 0,
     settled |-> "none", value |-> "none"]

OthersIdle ==
    /\ input = Idle
    /\ output = Idle
    /\ documentCookie = << >>
    /\ localStorage = NoItems
    /\ requestService = NotConstructed
    /\ http = NoRequest

----------------------------------------------------------------------------
(* Initial state: the page has loaded, the service is not yet constructed. *)

Init ==
    /\ \E c \in Configs :
        /\ variant = c.v
        /\ cfg = [disable |-> c.disable,
                  showRenewBeforeTenMin |-> c.showRenewBeforeTenMin,
                  showRenewBeforeFiveMin |-> c.showRenewBeforeFiveMin,
                  refreshBeforeExpireGiven |-> c.refreshBeforeExpireInMinutes # 0,
                  refreshBeforeExpireInMinutes |-> c.refreshBeforeExpireInMinutes]
        /\ \E p \in Pages(c.v) :
            /\ url = p.url
            /\ cookies = p.cookies
    /\ pc = "init"
    /\ now = 0
    /\ token = NoToken
    /\ refreshToken = NoRefresh
    /\ hasToken = FALSE
    /\ tokenInfo = NoInfo
    /\ refreshTimeoutId = 0
    /\ tenMinuteTimeoutId = 0
    /\ redirectTimeoutId = 0
    /\ timers = {}
    /\ inflight = NoRequests
    /\ location = "app"
    /\ popup = "none"
    /\ calls = 0
    /\ adoptedValid = FALSE
    /\ refreshLog = NoLog
    /\ last = [op |-> "load"]
    /\ OthersIdle

\* Initial states for the refresh window: the refresh-capable class on a
\* page whose URL carries a long-lived token and a refresh token, with
\* refreshBeforeExpireInMinutes left unset or set to any number in range
\* (what `||` sees for an unset value is undefined, modelled as 0).
WindowInit ==
    /\ variant = "refresh"
    /\ \E given \in BOOLEAN, c \in (0 - MaxConfigured)..MaxConfigured :
        /\ given \/ c = 0
        /\ cfg = [disable |-> FALSE,
                  showRenewBeforeTenMin |-> FALSE,
                  showRenewBeforeFiveMin |-> FALSE,
                  refreshBeforeExpireGiven |-> given,
                  refreshBeforeExpireInMinutes |-> c]
    /\ url = [token |-> Jwt(LongExp), refresh |-> "r1", forbidden |-> FALSE]
    /\ cookies = [token |-> NoToken, refresh |-> NoRefresh]
    /\ pc = "init"
    /\ now = 0
    /\ token = NoToken
    /\ refreshToken = NoRefresh
    /\ hasToken = FALSE
    /\ tokenInfo = NoInfo
    /\ refreshTimeoutId = 0
    /\ tenMinuteTimeoutId = 0
    /\ redirectTimeoutId = 0
    /\ timers = {}
    /\ inflight = NoRequests
    /\ location = "app"
    /\ popup = "none"
    /\ calls = 0
    /\ adoptedValid = FALSE
    /\ refreshLog = NoLog
    /\ last = [op |-> "load"]
    /\ OthersIdle

Running == pc = "running" /\ location = "app"

----------------------------------------------------------------------------
(* Actions *)

\* new AuthService(config, http)
Construct ==
    /\ pc = "init"
    /\ LET r == constructor(World)
       IN  /\ Commit(r.w)
           /\ adoptedValid' = AdoptedUnexpired(r)
           /\ refreshLog' = IF r.source = "none"
                            THEN LogStep(World, r.w)
                            ELSE LogAdoption(World, r.w, r.refresh)
           /\ last' = [op |-> "construct", source |-> r.source,
                       adopted |-> r.adopted, refresh |-> r.refresh,
                       ok |-> r.ok, threw |-> FALSE]
    /\ pc' = "running"
    /\ UNCHANGED others
    /\ UNCHANGED <<variant, cfg, now, calls>>

\* The clock advances; a timer that is due fires before the clock moves on.
Tick ==
    /\ Running
    /\ now + TickStep <= MaxNow
    /\ \A t \in timers : t.due > now
    /\ now' = now + TickStep
    /\ last' = [op |-> "tick"]
    /\ UNCHANGED others
    /\ UNCHANGED <<variant, cfg, pc, token, refreshToken, hasToken, tokenInfo,
                   refreshTimeoutId, tenMinuteTimeoutId, redirectTimeoutId,
                   timers, inflight, cookies, url, location, popup, calls,
                   adoptedValid>>
    /\ refreshLog' = LogStep(World, World)

\* The callback of a timer:
\*   "refresh"       () => this.tryToRefreshToken()
\*   "ten" / "five"  () => this._showPopup("expiry", 10 / 5)
\*   "redirect"      () => this._auth("login")
timerCallback(w, kind) ==
    CASE kind = "refresh" -> tryToRefreshTokenSend(w, "timer").w
      [] kind = "ten" -> showPopupElement(w, "expiry", 10)
      [] kind = "five" -> showPopupElement(w, "expiry", 5)
      [] OTHER -> auth(w, "login")

\* A due timer fires; among the due timers the earliest goes first.
FireTimer ==
    /\ Running
    /\ \E t \in timers :
        /\ t.due <= now
        /\ \A u \in timers : u.due >= t.due
        /\ LET w == timerCallback([World EXCEPT !.timers = @ \ {t}], t.kind)
           IN  /\ InFlight(w) <= MaxInflight
               /\ Commit(w)
               /\ refreshLog' = LogStep(World, w)
        /\ last' = [op |-> "timer", kind |-> t.kind]
    /\ UNCHANGED others
    /\ UNCHANGED <<variant, cfg, pc, now, adoptedValid, calls>>

\* tryToRefreshToken after its await: a response with an access token is
\* persisted and adopted and the call resolves to true whatever _setTokens
\* returned; any other response or a transport error disables the refresh
\* and resolves to false.
tryToRefreshTokenReceive(w, resp) ==
    IF resp.kind = "tokens"
    THEN LET r == setTokens(setCookies(w, resp.access, resp.refresh),
                            resp.access, resp.refresh)
         IN  [result |-> TRUE, ok |-> r.ok, w |-> r.w]
    ELSE [result |-> FALSE, ok |-> FALSE, w |-> disableRefresh(w)]

\* The continuation of whoever awaited the refresh: _scheduleExpiryPopup
\* shows the expiry popup when the attempt resolved to false.
afterRefresh(w, origin, result) ==
    IF origin = "arm" /\ ~result
    THEN showPopupElement(w, "expiry", 0)
    ELSE w

\* The auth server answers one of the requests in flight (or it fails).
Deliver ==
    /\ Running
    /\ \E origin \in Origins, resp \in Responses :
        /\ inflight[origin] > 0
        /\ LET w0 == [World EXCEPT !.inflight[origin] = @ - 1]
               r == tryToRefreshTokenReceive(w0, resp)
               w == afterRefresh(r.w, origin, r.result)
           IN  /\ Commit(w)
               /\ refreshLog' = IF r.result
                                THEN LogAdoption(w0, w, resp.refresh)
                                ELSE LogFailure
               /\ adoptedValid' =
                      (adoptedValid \/
                           AdoptedUnexpired([adopted |-> resp.access, ok |-> r.ok, w |-> r.w]))
               /\ last' = [op |-> "refreshed", origin |-> origin,
                           result |-> r.result, adopted |-> resp.access,
                           refresh |-> resp.refresh, ok |-> r.ok, threw |-> FALSE]
    /\ UNCHANGED others
    /\ UNCHANGED <<variant, cfg, pc, now, calls>>

\* A caller invokes the public tryToRefreshToken().
TryToRefreshToken ==
    /\ Running
    /\ calls < MaxCalls
    /\ calls' = calls + 1
    /\ variant = "refresh"
    /\ LET r == tryToRefreshTokenSend(World, "user")
       IN  /\ InFlight(r.w) <= MaxInflight
           /\ Commit(r.w)
           /\ refreshLog' = LogStep(World, r.w)
           /\ last' = [op |-> "tryToRefreshToken", sent |-> r.sent,
                       result |-> FALSE, threw |-> FALSE]
    /\ UNCHANGED others
    /\ UNCHANGED <<variant, cfg, pc, now, adoptedValid>>

\* getTokens() / getToken(): empty when _isTokenExpired(this.token).
getTokens(w) ==
    LET e == isTokenExpired(w, w.token)
    IN  [token |-> IF e.expired THEN NoToken ELSE w.token,
         refreshToken |-> IF e.expired \/ variant # "refresh"
                          THEN NoRefresh ELSE w.refreshToken,
         w |-> e.w]

GetTokens ==
    /\ Running
    /\ calls < MaxCalls
    /\ calls' = calls + 1
    /\ LET r == getTokens(World)
       IN  /\ Commit(r.w)
           /\ refreshLog' = LogStep(World, r.w)
           /\ last' = [op |-> "getTokens", token |-> r.token,
                       refreshToken |-> r.refreshToken, threw |-> FALSE]
    /\ UNCHANGED others
    /\ UNCHANGED <<variant, cfg, pc, now, adoptedValid>>

\* getTokenInfo(): the extraction is not guarded, its exception escapes.
GetTokenInfo ==
    /\ Running
    /\ calls < MaxCalls
    /\ calls' = calls + 1
    /\ LET r == extractInfoFromToken(World, NoToken)
       IN  /\ Commit(r.w)
           /\ refreshLog' = LogStep(World, r.w)
           /\ last' = [op |-> "getTokenInfo", info |-> r.w.tokenInfo,
                       threw |-> r.threw]
    /\ UNCHANGED others
    /\ UNCHANGED <<variant, cfg, pc, now, adoptedValid>>

\* showPopup(type): extraction, unguarded, then the popup.
ShowPopup ==
    /\ Running
    /\ calls < MaxCalls
    /\ calls' = calls + 1
    /\ \E type \in {"expiry", "user"} :
        LET r == extractInfoFromToken(World, NoToken)
        IN  /\ Commit(IF r.threw THEN r.w ELSE showPopupElement(r.w, type, 0))
            /\ last' = [op |-> "showPopup", type |-> type, threw |-> r.threw]
    /\ refreshLog' = LogStep(World, World)
    /\ UNCHANGED others
    /\ UNCHANGED <<variant, cfg, pc, now, adoptedValid>>

\* logout(): the cookies are removed, then the browser leaves for /logout.
Logout ==
    /\ Running
    /\ Commit(auth(removeCookies(World), "logout"))
    /\ last' = [op |-> "logout", threw |-> FALSE]
    /\ refreshLog' = LogStep(World, World)
    /\ UNCHANGED others
    /\ UNCHANGED <<variant, cfg, pc, now, adoptedValid, calls>>

\* login()
Login ==
    /\ Running
    /\ Commit(auth(World, "login"))
    /\ last' = [op |-> "login", threw |-> FALSE]
    /\ refreshLog' = LogStep(World, World)
    /\ UNCHANGED others
    /\ UNCHANGED <<variant, cfg, pc, now, adoptedValid, calls>>

\* goToForbidden(route), refresh-capable class only
GoToForbidden ==
    /\ Running
    /\ variant = "refresh"
    /\ Commit(goToForbidden(World))
    /\ last' = [op |-> "goToForbidden", threw |-> FALSE]
    /\ refreshLog' = LogStep(World, World)
    /\ UNCHANGED others
    /\ UNCHANGED <<variant, cfg, pc, now, adoptedValid, calls>>

Next ==
    \/ Construct
    \/ Tick
    \/ FireTimer
    \/ Deliver
    \/ TryToRefreshToken
    \/ GetTokens
    \/ GetTokenInfo
    \/ ShowPopup
    \/ Logout
    \/ Login
    \/ GoToForbidden

Spec == Init /\ [][Next]_vars

\* The constructor alone, over every configured refresh window.
WindowNext == Construct

WindowSpec == WindowInit /\ [][WindowNext]_vars

----------------------------------------------------------------------------
(* The page while it is being left.  An assignment to window.location.href *)
(* starts a navigation; the document, its service object and its requests  *)
(* in flight live on until the next document arrives, and a response that  *)
(* arrives before that is handled as any other.                            *)

Leaving == pc = "running" /\ location # "app"

\* The auth server answers a request in flight after the navigation began.
DeliverWhileLeaving ==
    /\ Leaving
    /\ \E origin \in Origins, resp \in Responses :
        /\ inflight[origin] > 0
        /\ LET w0 == [World EXCEPT !.inflight[origin] = @ - 1]
               r == tryToRefreshTokenReceive(w0, resp)
               w == afterRefresh(r.w, origin, r.result)
           IN  /\ Commit(w)
               /\ refreshLog' = IF r.result
                                THEN LogAdoption(w0, w, resp.refresh)
                                ELSE LogFailure
               /\ adoptedValid' =
                      (adoptedValid \/
                           AdoptedUnexpired([adopted |-> resp.access, ok |-> r.ok, w |-> r.w]))
               /\ last' = [op |-> "refreshed", origin |-> origin,
                           result |-> r.result, adopted |-> resp.access,
                           refresh |-> resp.refresh, ok |-> r.ok, threw |-> FALSE]
    /\ UNCHANGED others
    /\ UNCHANGED <<variant, cfg, pc, now, calls>>

\* The refresh-capable service from a page whose URL or cookie carries a
\* token, until the page it navigated away from is gone.
LeavingInit ==
    /\ Init
    /\ variant = "refresh"
    /\ ~cfg.disable
    /\ ~url.forbidden

LeavingNext ==
    \/ Construct
    \/ Tick
    \/ FireTimer
    \/ Deliver
    \/ TryToRefreshToken
    \/ Logout
    \/ DeliverWhileLeaving

LeavingSpec == LeavingInit /\ [][LeavingNext]_vars

----------------------------------------------------------------------------
(* The persisted store at the level of characters.  A string is a sequence *)
(* of characters; the storage key "authToken" and the suffix "_refresh"    *)
(* and the cookie attributes are single symbols, as nothing looks inside   *)
(* them.                                                                   *)

MaxLen == 3             \* longest token string saved

\* "x" and "." stand for the characters of a JWT, "2" is also a hex digit,
\* ";" and "%" are what a cookie string and a URI escape are made with.
Chars == {"x", ".", ";", "%", "2"}
HexDigits == {"2"}

Strings == UNION {[1..n -> Chars] : n \in 0..MaxLen}

storageKey == <<"authToken">>
refreshKey == storageKey \o <<"_refresh">>

\* String.indexOf(c), counted from 1; 0 when c does not occur.
IndexOf(s, c) ==
    IF \E i \in 1..Len(s) : s[i] = c
    THEN CHOOSE i \in 1..Len(s) : s[i] = c /\ \A j \in 1..(i - 1) : s[j] # c
    ELSE 0

\* String.split(c)
RECURSIVE split(_, _)
split(s, c) ==
    LET i == IndexOf(s, c)
    IN  IF i = 0
        THEN <<s>>
        ELSE <<SubSeq(s, 1, i - 1)>> \o split(SubSeq(s, i + 1, Len(s)), c)

\* c.indexOf(p) == 0
StartsWith(s, p) == Len(s) >= Len(p) /\ SubSeq(s, 1, Len(p)) = p

\* while (c.charAt(0) == " ") c = c.substring(1)
RECURSIVE trimStart(_)
trimStart(c) ==
    IF c # << >> /\ c[1] = " " THEN trimStart(Tail(c)) ELSE c

\* decodeURIComponent: "%" and two hex digits become the character they
\* name ("%22" is the double quote); a "%" followed by anything else
\* throws URIError (ok = FALSE).
RECURSIVE decodeURIComponent(_)
decodeURIComponent(s) ==
    IF s = << >>
    THEN [ok |-> TRUE, str |-> << >>]
    ELSE IF s[1] # "%"
         THEN LET r == decodeURIComponent(Tail(s))
              IN  [ok |-> r.ok, str |-> <<s[1]>> \o r.str]
         ELSE IF Len(s) >= 3 /\ s[2] \in HexDigits /\ s[3] \in HexDigits
              THEN LET r == decodeURIComponent(SubSeq(s, 4, Len(s)))
                   IN  [ok |-> r.ok, str |-> <<"\"">> \o r.str]
              ELSE [ok |-> FALSE, str |-> << >>]

\* The browser on `document.cookie = str`: the name-value pair ends at the
\* first ";", the name at the first "="; a cookie of the same name is
\* replaced, a new one is added after the others.
documentCookieSet(jar, str) ==
    LET pair == split(str, ";")[1]
        i == IndexOf(pair, "=")
        c == [name |-> SubSeq(pair, 1, i - 1),
              value |-> SubSeq(pair, i + 1, Len(pair))]
    IN  IF \E k \in 1..Len(jar) : jar[k].name = c.name
        THEN [k \in 1..Len(jar) |-> IF jar[k].name = c.name THEN c ELSE jar[k]]
        ELSE Append(jar, c)

\* The browser on reading document.cookie: "name=value" joined by "; ".
RECURSIVE documentCookieGet(_)
documentCookieGet(jar) ==
    IF jar = << >>
    THEN << >>
    ELSE LET c == jar[1].name \o <<"=">> \o jar[1].value
         IN  IF Len(jar) = 1
             THEN c
             ELSE c \o <<";", " ">> \o documentCookieGet(Tail(jar))

\* _setCookie(token, name): the value is written as it is.
setCookie(jar, tok, name) ==
    documentCookieSet(jar,
        name \o <<"=">> \o tok
             \o <<";", " ", "expires=<in one day>", ";", " ", "path=/", ";", " ",
                  "SameSite=Strict", ";", " ", "Secure", ";">>)

\* _setCookies(token, refreshToken) on the characters.
setCookieTexts(jar, tok, rt) ==
    IF rt # << >>
    THEN setCookie(setCookie(jar, tok, storageKey), rt, refreshKey)
    ELSE setCookie(jar, tok, storageKey)

\* _getCookie(name): document.cookie is URI-decoded as a whole, split at
\* ";", and the first part that starts with "<name>=" gives the value; ""
\* when there is none or when decodeURIComponent throws.
getCookie(jar, name) ==
    LET cookieName == name \o <<"=">>
        d == decodeURIComponent(documentCookieGet(jar))
        ca == split(d.str, ";")
        hits == {i \in 1..Len(ca) : StartsWith(trimStart(ca[i]), cookieName)}
    IN  IF ~d.ok \/ hits = {}
        THEN << >>
        ELSE LET i == CHOOSE h \in hits : \A g \in hits : h <= g
                 c == trimStart(ca[i])
             IN  SubSeq(c, Len(cookieName) + 1, Len(c))

\* _getTokensFromCookie()
getTokensFromCookie(jar) ==
    [token |-> getCookie(jar, storageKey),
     refreshToken |-> getCookie(jar, refreshKey)]

\* localStorage.setItem(key, value) and localStorage.getItem(key)
setItem(items, key, value) == [items EXCEPT ![key] = value]
getItem(items, key) == items[key]

\* The fields of the refresh-capable AuthService before its constructor
\* ran, on a page without cookies.
FieldsAtRest ==
    /\ variant = "refresh"
    /\ cookies = [token |-> NoToken, refresh |-> NoRefresh]
    /\ pc = "init"
    /\ now = 0
    /\ token = NoToken
    /\ refreshToken = NoRefresh
    /\ hasToken = FALSE
    /\ tokenInfo = NoInfo
    /\ refreshTimeoutId = 0
    /\ tenMinuteTimeoutId = 0
    /\ redirectTimeoutId = 0
    /\ timers = {}
    /\ inflight = NoRequests
    /\ location = "app"
    /\ popup = "none"
    /\ calls = 0
    /\ adoptedValid = FALSE
    /\ refreshLog = NoLog
    /\ last = [op |-> "load"]

\* The AuthService variables while a specification runs something else.
AuthAtRest ==
    /\ FieldsAtRest
    /\ cfg = [disable |-> FALSE, showRenewBeforeTenMin |-> TRUE,
              showRenewBeforeFiveMin |-> FALSE,
              refreshBeforeExpireGiven |-> FALSE,
              refreshBeforeExpireInMinutes |-> 0]
    /\ url = [token |-> NoToken, refresh |-> NoRefresh, forbidden |-> FALSE]

\* Cookies an earlier page load may have left.
OldCookies ==
    <<[name |-> storageKey, value |-> <<"x", ".", "x">>],
      [name |-> refreshKey, value |-> <<"x">>]>>

\* A token and a refresh token (or none) to be saved, into a store that is
\* empty or holds an older pair.
StoreInit ==
    /\ AuthAtRest
    /\ input \in [token : Strings \ {<< >>},
                  refreshToken : {s \in Strings : Len(s) <= 1}]
    /\ output = Idle
    /\ documentCookie \in {<< >>, OldCookies}
    /\ localStorage \in {NoItems, [authToken |-> <<"x", ".", "x">>]}
    /\ requestService = NotConstructed
    /\ http = NoRequest

\* this._setCookies(token, refreshToken)
SetCookies ==
    /\ output.op = "none"
    /\ documentCookie' = setCookieTexts(documentCookie, input.token, input.refreshToken)
    /\ output' = [op |-> "setCookies"]
    /\ UNCHANGED <<authVars, input, localStorage, requestService, http>>

\* this._getTokensFromCookie()
GetTokensFromCookie ==
    /\ output.op = "setCookies"
    /\ LET r == getTokensFromCookie(documentCookie)
       IN  output' = [op |-> "getTokensFromCookie", token |-> r.token,
                      refreshToken |-> r.refreshToken]
    /\ UNCHANGED <<authVars, input, documentCookie, localStorage, requestService, http>>

\* TokenService._setToken: localStorage.setItem(this.config.storageKey, token)
SetItem ==
    /\ output.op = "none"
    /\ localStorage' = setItem(localStorage, "authToken", input.token)
    /\ output' = [op |-> "setItem"]
    /\ UNCHANGED <<authVars, input, documentCookie, requestService, http>>

\* TokenService._getToken: localStorage.getItem(this.config.storageKey)
GetItem ==
    /\ output.op = "setItem"
    /\ output' = [op |-> "getItem", token |-> getItem(localStorage, "authToken")]
    /\ UNCHANGED <<authVars, input, documentCookie, localStorage, requestService, http>>

StoreNext ==
    \/ SetCookies
    \/ GetTokensFromCookie
    \/ SetItem
    \/ GetItem

StoreSpec == StoreInit /\ [][StoreNext]_vars

----------------------------------------------------------------------------
(* _decodeJWT at the level of segments.  A token string is the sequence of *)
(* its segments, the parts between the dots; a segment is known by what    *)
(* atob and JSON.parse make of it:                                         *)
(*   "object"   base64url of the JSON text of an object                    *)
(*   "null"     base64url of the JSON text null                            *)
(*   "text"     base64url of a text that is not JSON                       *)
(*   "garbage"  characters atob rejects                                    *)
(*   "empty"    no characters at all ("a..c", or the empty string)         *)

MaxSegments == 4        \* most segments a token string has

Segments == {"object", "null", "text", "garbage", "empty"}

SegmentedTokens == UNION {[1..n -> Segments] : n \in 1..MaxSegments}

\* _base64UrlDecode(base64Url): replace() on undefined throws TypeError,
\* atob throws on characters outside base64; "" decodes to "".
base64UrlDecode(seg) ==
    CASE seg \in {"undefined", "garbage"} -> [ok |-> FALSE, text |-> "none"]
      [] seg = "empty" -> [ok |-> TRUE, text |-> ""]
      [] OTHER -> [ok |-> TRUE, text |-> seg]

\* JSON.parse(text): throws SyntaxError on "" and on a text that is not JSON.
JSONparse(text) ==
    IF text \in {"object", "null"}
    THEN [ok |-> TRUE, value |-> text]
    ELSE [ok |-> FALSE, value |-> "none"]

\* _decodeJWT(token) for token.split(".") = parts: the second element is
\* decoded and parsed, whatever the number of elements; null when
\* _base64UrlDecode or JSON.parse throws.
decodeSegments(parts) ==
    LET b == base64UrlDecode(IF Len(parts) >= 2 THEN parts[2] ELSE "undefined")
        j == JSONparse(b.text)
    IN  IF b.ok /\ j.ok THEN j.value ELSE "null"

DecodeInit ==
    /\ AuthAtRest
    /\ input \in [token : SegmentedTokens]
    /\ output = Idle
    /\ documentCookie = << >>
    /\ localStorage = NoItems
    /\ requestService = NotConstructed
    /\ http = NoRequest

\* this._decodeJWT(token)
DecodeJWT ==
    /\ output.op = "none"
    /\ output' = [op |-> "decodeJWT", payload |-> decodeSegments(input.token)]
    /\ UNCHANGED <<authVars, input, documentCookie, localStorage, requestService, http>>

DecodeNext == DecodeJWT

DecodeSpec == DecodeInit /\ [][DecodeNext]_vars

----------------------------------------------------------------------------
(* The URL _auth navigates to.  A URL is a sequence of pieces; "/" is a    *)
(* piece of its own where the code looks at it.  An option that is not     *)
(* given is "undefined".                                                   *)

MaxSlashes == 2         \* most slashes the configured authURL ends with

AuthURLs ==
    {<<"https://auth.example.com">> \o [i \in 1..n |-> "/"] : n \in 0..MaxSlashes}

UrlConfigs ==
    [authURL : AuthURLs, database : {"undefined", "", "db1"},
     application : {"undefined", "app1"}]

Hrefs ==
    {<<"https://example.com/app">>, <<"https://example.com/app", "/">>,
     <<"https://example.com/app", "/", "page?x=1">>}

\* _removeTrailingSlash(url)
removeTrailingSlash(u) ==
    IF u # << >> /\ u[Len(u)] = "/" THEN SubSeq(u, 1, Len(u) - 1) ELSE u

\* What _auth(type) assigns to window.location.href.  The database tag is
\* left out when config.database is falsy; the application tag is the
\* template `&appName=${this.config.application}`, whatever the option is.
authHref(config, type, href) ==
    LET dbParam == IF config.database \notin {"undefined", ""}
                   THEN <<"&database=", config.database>>
                   ELSE << >>
        applicationParam == <<"&appName=", config.application>>
    IN  removeTrailingSlash(config.authURL) \o <<"/", type, "?next=">> \o href
            \o dbParam \o applicationParam

AuthUrlInit ==
    /\ AuthAtRest
    /\ input \in [config : UrlConfigs, type : {"login", "logout"}, href : Hrefs]
    /\ output = Idle
    /\ documentCookie = << >>
    /\ localStorage = NoItems
    /\ requestService = NotConstructed
    /\ http = NoRequest

\* this._auth(type)
Auth ==
    /\ output.op = "none"
    /\ output' = [op |-> "auth",
                  href |-> authHref(input.config, input.type, input.href)]
    /\ UNCHANGED <<authVars, input, documentCookie, localStorage, requestService, http>>

AuthUrlNext == Auth

AuthUrlSpec == AuthUrlInit /\ [][AuthUrlNext]_vars

----------------------------------------------------------------------------
(* provideAuthService and mergeAuthServiceConfig.  A configuration object  *)
(* is a function from its keys to values; a key the object does not have   *)
(* is Undefined.  Values are sequences of pieces, as URLs are; apiURL      *)
(* stands for apiSettings.apiURL.                                          *)

ConfigKeys == {"baseURL", "apiURL", "storageKey", "application", "_disable"}

defaultAuthServiceConfig ==
    [k \in ConfigKeys |->
        CASE k = "baseURL" -> <<"https://example.com/app">>
          [] k = "apiURL" -> <<"https://api.example.com">>
          [] k = "storageKey" -> <<"authToken">>
          [] k = "application" -> <<"default">>
          [] OTHER -> <<"false">>]

\* What the application may supply for a key.
Supplied(k) ==
    CASE k = "baseURL" -> {<<"https://my.example.com">>, <<"https://my.example.com", "/">>}
      [] k = "apiURL" -> {<<"https://my.example.com", "/", "api", "/">>}
      [] k = "storageKey" -> {<<"myApp">>}
      [] k = "application" -> {<<"app1">>}
      [] OTHER -> {<<"true">>}

PartialConfigs ==
    {c \in [ConfigKeys -> UNION {Supplied(k) : k \in ConfigKeys} \cup {Undefined}] :
        \A k \in ConfigKeys : c[k] \in Supplied(k) \cup {Undefined}}

\* { ...a, ...b }: the keys b has win.
Spread(a, b) == [k \in ConfigKeys |-> IF b[k] # Undefined THEN b[k] ELSE a[k]]

\* mergeAuthServiceConfig(config) of config.ts: config.apiSettings.apiURL
\* and config.baseURL lose a trailing slash in the object passed in, then
\* the object is spread over the defaults.
mergeAuthServiceConfig(config) ==
    LET c1 == IF config["apiURL"] # Undefined
              THEN [config EXCEPT !["apiURL"] = removeTrailingSlash(@)]
              ELSE config
        c2 == IF c1["baseURL"] # Undefined
              THEN [c1 EXCEPT !["baseURL"] = removeTrailingSlash(@)]
              ELSE c1
    IN  [merged |-> Spread(defaultAuthServiceConfig, c2), config |-> c2]

\* provideAuthService(config): providers.ts hands the object itself to the
\* injector ("plain"); the other provider merges it first ("merging").
provideAuthService(provider, config) ==
    IF provider = "merging"
    THEN LET m == mergeAuthServiceConfig(config)
         IN  [useValue |-> m.merged, config |-> m.config]
    ELSE [useValue |-> config, config |-> config]

ConfigInit ==
    /\ AuthAtRest
    /\ input \in [provider : {"plain", "merging"}, config : PartialConfigs]
    /\ output = Idle
    /\ documentCookie = << >>
    /\ localStorage = NoItems
    /\ requestService = NotConstructed
    /\ http = NoRequest

\* provideAuthService(config) at application start; inject(AUTH_CONFIG)
\* gives useValue.
ProvideAuthService ==
    /\ output.op = "none"
    /\ LET r == provideAuthService(input.provider, input.config)
       IN  output' = [op |-> "provideAuthService", injected |-> r.useValue,
                      config |-> r.config]
    /\ UNCHANGED <<authVars, input, documentCookie, localStorage, requestService, http>>

ConfigNext == ProvideAuthService

ConfigSpec == ConfigInit /\ [][ConfigNext]_vars

----------------------------------------------------------------------------
(* RequestService beside the refresh-capable AuthService.  One request is  *)
(* followed from makeRequest to the settling of the promise it returned;   *)
(* `http` keeps what was sent for it and how it ended.  `input` holds the  *)
(* arguments the application chooses from: RequestSpec lets the token      *)
(* lifecycle run beside plain GET requests, ApiSpec runs every kind of     *)
(* request beside a service whose token stays as it is.                    *)

MaxRequests == 2        \* calls of makeRequest
MaxRetries == 2         \* largest retryCount

ApiURL == <<"https://api.example.com", "/">>
OtherApiURL == <<"https://other.example.com">>

\* The arguments of setSettings(apiURL, transformKeys, retryCount).
Settings ==
    [apiURL : {ApiURL}, transformKeys : BOOLEAN, retryCount : {0, MaxRetries}]

SettingsKeys == {"apiURL", "transformKeys", "retryCount"}

\* customApiSettings: not passed, or an object that has the keys in `keys`.
CustomSettings ==
    {NoCustom} \cup
    {c \in [given : {TRUE}, keys : SUBSET SettingsKeys,
            apiURL : {Undefined, OtherApiURL}, transformKeys : BOOLEAN,
            retryCount : {0, 1}] :
        /\ c.apiURL = OtherApiURL <=> "apiURL" \in c.keys
        /\ c.transformKeys => "transformKeys" \in c.keys
        /\ c.retryCount # 0 => "retryCount" \in c.keys}

Methods == {"GET", "POST", "PUT", "PATCH", "DELETE"}

\* constructor(authService, http): this.token = authService.getTokens()?.token
requestServiceConstructor(rs, w) ==
    LET r == getTokens(w)
    IN  [rs |-> [rs EXCEPT !.constructed = TRUE, !.token = r.token], w |-> r.w]

\* setSettings(apiURL, transformKeys, retryCount)
setSettings(rs, s) ==
    [rs EXCEPT !.apiSettings =
        [set |-> TRUE, apiURL |-> removeTrailingSlash(s.apiURL),
         transformKeys |-> s.transformKeys, retryCount |-> s.retryCount]]

\* { ...this.apiSettings, ...customApiSettings }
spreadSettings(stored, custom) ==
    [keys |-> custom.keys \cup (IF stored.set THEN SettingsKeys ELSE {}),
     apiURL |-> IF "apiURL" \in custom.keys THEN custom.apiURL
                ELSE IF stored.set THEN stored.apiURL ELSE Undefined,
     transformKeys |-> IF "transformKeys" \in custom.keys THEN custom.transformKeys
                       ELSE stored.set /\ stored.transformKeys,
     retryCount |-> IF "retryCount" \in custom.keys THEN custom.retryCount
                    ELSE IF stored.set THEN stored.retryCount ELSE 0]

\* apiSettings.retryCount || 0
retryTimes(apiSettings) ==
    IF "retryCount" \in apiSettings.keys THEN apiSettings.retryCount ELSE 0

\* The token makeRequest checks and _getHeaders sends: the field set by the
\* constructor.
makeRequestToken(rs, w) == rs.token

\* Mutant: the method is not looked at.
supportedAny(method) == TRUE

\* switch (method): GET, POST, PUT and PATCH build a request, anything else
\* throws.
supported(method) == method \in {"GET", "POST", "PUT", "PATCH"}

\* makeRequest(method, route, data, customApiSettings) up to the
\* subscription of firstValueFrom: an error thrown on the way rejects the
\* promise and nothing is sent.
makeRequest(rs, h, w, method, custom) ==
    LET tok == makeRequestToken(rs, w)
        apiSettings == spreadSettings(rs.apiSettings, custom)
        call == [h EXCEPT !.made = @ + 1, !.method = method, !.custom = custom,
                          !.held = getTokens(w).token,
                          !.stored = rs.apiSettings,
                          !.attempts = 0, !.failures = 0, !.bearer = NoToken,
                          !.apiURL = Undefined, !.retryCount = 0]
    IN  IF ~rs.apiSettings.set /\ ~custom.given
        THEN [call EXCEPT !.settled = "rejected", !.value = "API settings not set"]
        ELSE IF ~Truthy(tok)
        THEN [call EXCEPT !.settled = "rejected", !.value = "No token available"]
        ELSE IF ~supported(method)
        THEN [call EXCEPT !.settled = "rejected", !.value = "Unsupported request method"]
        ELSE [call EXCEPT !.busy = TRUE, !.settled = "pending", !.value = "none",
                          !.attempts = 1, !.bearer = tok,
                          !.apiURL = apiSettings.apiURL,
                          !.retryCount = retryTimes(apiSettings)]

\* _transformKeys(obj): reads this.apiSettings.transformKeys, the stored
\* settings; with no stored settings the read throws inside the try and the
\* object is returned as it came.
transformKeys(rs) ==
    IF rs.apiSettings.set /\ rs.apiSettings.transformKeys
    THEN "transformed"
    ELSE "as received"

\* An attempt failed.  retry(n) subscribes again while fewer than n retries
\* were made; then catchError(this._handleError) takes over: _handleError
\* is async, so it returns a promise of the throwError observable, and the
\* pipe emits that observable as a value, which resolves firstValueFrom.
onError(h) ==
    IF h.attempts <= h.retryCount
    THEN [h EXCEPT !.attempts = @ + 1, !.failures = @ + 1]
    ELSE [h EXCEPT !.failures = @ + 1, !.busy = FALSE, !.settled = "resolved",
                   !.value = "throwError observable"]

\* An attempt succeeded: map(_transformKeys) and firstValueFrom resolves.
onResponse(rs, h) ==
    [h EXCEPT !.busy = FALSE, !.settled = "resolved", !.value = transformKeys(rs)]

\* The refresh-capable service on a page that brings a token (or none, with
\* auto-login disabled), with or without refresh token.
RequestInit ==
    /\ FieldsAtRest
    /\ \E d \in BOOLEAN :
        cfg = [disable |-> d, showRenewBeforeTenMin |-> FALSE,
               showRenewBeforeFiveMin |-> FALSE,
               refreshBeforeExpireGiven |-> FALSE,
               refreshBeforeExpireInMinutes |-> 0]
    /\ url \in [token : {NoToken, Jwt(ShortExp), Jwt(LongExp)},
                refresh : {NoRefresh, "r1"}, forbidden : {FALSE}]
    /\ input = [settings |-> {[apiURL |-> ApiURL, transformKeys |-> FALSE,
                                retryCount |-> 0]},
                methods |-> {"GET"}, customs |-> {NoCustom}]
    /\ output = Idle
    /\ documentCookie = << >>
    /\ localStorage = NoItems
    /\ requestService = NotConstructed
    /\ http = NoRequest

\* The service on a page that brings a long-lived token, or none with
\* auto-login disabled; the application makes requests of every kind.
ApiInit ==
    /\ FieldsAtRest
    /\ \E d \in BOOLEAN :
        /\ cfg = [disable |-> d, showRenewBeforeTenMin |-> FALSE,
                  showRenewBeforeFiveMin |-> FALSE,
                  refreshBeforeExpireGiven |-> FALSE,
                  refreshBeforeExpireInMinutes |-> 0]
        /\ url = [token |-> IF d THEN NoToken ELSE Jwt(LongExp),
                  refresh |-> NoRefresh, forbidden |-> FALSE]
    /\ input = [settings |-> Settings, methods |-> Methods,
                customs |-> CustomSettings]
    /\ output = Idle
    /\ documentCookie = << >>
    /\ localStorage = NoItems
    /\ requestService = NotConstructed
    /\ http = NoRequest

\* new RequestService(authService, http), once the AuthService exists
ConstructRequestService ==
    /\ Running
    /\ ~requestService.constructed
    /\ LET r == requestServiceConstructor(requestService, World)
       IN  /\ requestService' = r.rs
           /\ Commit(r.w)
    /\ UNCHANGED <<variant, cfg, pc, now, calls, adoptedValid, refreshLog, last>>
    /\ UNCHANGED <<input, output, documentCookie, localStorage, http>>

\* requestService.setSettings(...)
SetSettings ==
    /\ Running
    /\ requestService.constructed
    /\ ~http.busy
    /\ ~requestService.apiSettings.set
    /\ \E s \in input.settings : requestService' = setSettings(requestService, s)
    /\ UNCHANGED <<authVars, input, output, documentCookie, localStorage, http>>

\* requestService.makeRequest(method, route, data, customApiSettings)
MakeRequest ==
    /\ Running
    /\ requestService.constructed
    /\ ~http.busy
    /\ http.made < MaxRequests
    /\ \E method \in input.methods, custom \in input.customs :
        http' = makeRequest(requestService, http, World, method, custom)
    /\ UNCHANGED <<authVars, input, output, documentCookie, localStorage, requestService>>

\* The API answers the attempt in progress, or the attempt fails.
HttpRespond ==
    /\ http.busy
    /\ \/ http' = onResponse(requestService, http)
       \/ http' = onError(http)
    /\ UNCHANGED <<authVars, input, output, documentCookie, localStorage, requestService>>

RequestNext ==
    \/ Construct
    \/ Tick
    \/ FireTimer
    \/ Deliver
    \/ ConstructRequestService
    \/ SetSettings
    \/ MakeRequest
    \/ HttpRespond

RequestSpec == RequestInit /\ [][RequestNext]_vars

ApiNext ==
    \/ Construct
    \/ ConstructRequestService
    \/ SetSettings
    \/ MakeRequest
    \/ HttpRespond

ApiSpec == ApiInit /\ [][ApiNext]_vars

----------------------------------------------------------------------------
(* The local-storage TokenService (variant "local").  Its fields are       *)
(* `token` and decodedToken; decodedToken is written by _decodeToken       *)
(* whenever a token is held, so it is decodeJWT(token) throughout and has  *)
(* no variable of its own.  An item of localStorage is a token string,     *)
(* represented as the tokens are; NoToken is the null of a missing item.   *)

\* _isTokenExpired(token): decodedToken.exp * 1000 < Date.now(), true when
\* reading exp throws; a payload without exp gives NaN, which is not less.
tokenServiceIsTokenExpired(w) ==
    LET d == decodeJWT(w.token)
    IN  IF ~d.ok THEN TRUE ELSE d.hasExp /\ d.exp < now

\* _scheduleExpiryPopup(timeUntilExpiry): both warnings, no flags.
tokenServiceScheduleExpiryPopup(w, t) ==
    IF t > tenMinutesInSeconds
    THEN setTimeout(setTimeout(w, "ten", t - tenMinutesInSeconds),
                    "five", t - fiveMinutes)
    ELSE showPopupElement(w, "expiry", 0)

\* _scheduleExpiration(): nothing without a token, nothing when reading
\* decodedToken.exp throws, nothing unless exp - now > 0.
tokenServiceScheduleExpiration(w) ==
    LET d == decodeJWT(w.token)
    IN  IF Truthy(w.token) /\ d.ok /\ d.hasExp /\ d.exp - now > 0
        THEN setTimeout(tokenServiceScheduleExpiryPopup(w, d.exp - now),
                        "redirect", d.exp - now)
        ELSE w

\* _setToken(token): stored, held, decoded, scheduled.
tokenServiceSetToken(w, items, tok) ==
    [w |-> tokenServiceScheduleExpiration([w EXCEPT !.token = tok]),
     items |-> setItem(items, "authToken", tok)]

\* _getToken() and the callback of _checkToken: the stored item is held
\* whatever it is; a missing or expired one sends the browser to the login
\* page, any other is scheduled.
tokenServiceGetStored(w, items) ==
    LET w1 == [w EXCEPT !.token = getItem(items, "authToken")]
    IN  IF ~Truthy(w1.token) \/ tokenServiceIsTokenExpired(w1)
        THEN auth(w1, "login")
        ELSE tokenServiceScheduleExpiration(w1)

\* constructor() and _checkToken(): the token of the URL is stored and held
\* without a check; otherwise the stored one is read.
tokenServiceConstructor(w, items) ==
    IF Truthy(w.url.token)
    THEN tokenServiceSetToken(w, items, w.url.token)
    ELSE [w |-> tokenServiceGetStored(w, items), items |-> items]

\* getToken(): the field.
tokenServiceGetToken(w) == w.token

\* The page loads with or without a token in the URL, over any stored item.
TokenServiceInit ==
    /\ variant = "local"
    /\ cfg = [disable |-> FALSE, showRenewBeforeTenMin |-> TRUE,
              showRenewBeforeFiveMin |-> TRUE,
              refreshBeforeExpireGiven |-> FALSE,
              refreshBeforeExpireInMinutes |-> 0]
    /\ url \in [token : Tokens \cup {NoToken}, refresh : {NoRefresh},
                forbidden : {FALSE}]
    /\ localStorage \in [authToken : Tokens \cup {NoToken}]
    /\ cookies = [token |-> NoToken, refresh |-> NoRefresh]
    /\ pc = "init"
    /\ now = 0
    /\ token = NoToken
    /\ refreshToken = NoRefresh
    /\ hasToken = FALSE
    /\ tokenInfo = NoInfo
    /\ refreshTimeoutId = 0
    /\ tenMinuteTimeoutId = 0
    /\ redirectTimeoutId = 0
    /\ timers = {}
    /\ inflight = NoRequests
    /\ location = "app"
    /\ popup = "none"
    /\ calls = 0
    /\ adoptedValid = FALSE
    /\ refreshLog = NoLog
    /\ last = [op |-> "load"]
    /\ input = Idle
    /\ output = Idle
    /\ documentCookie = << >>
    /\ requestService = NotConstructed
    /\ http = NoRequest

\* new TokenService()
ConstructTokenService ==
    /\ pc = "init"
    /\ LET r == tokenServiceConstructor(World, localStorage)
       IN  /\ Commit(r.w)
           /\ localStorage' = r.items
    /\ pc' = "running"
    /\ last' = [op |-> "construct", threw |-> FALSE]
    /\ UNCHANGED <<variant, cfg, now, calls, adoptedValid, refreshLog>>
    /\ UNCHANGED <<input, output, documentCookie, requestService, http>>

\* tokenService.getToken()
GetToken ==
    /\ Running
    /\ calls < MaxCalls
    /\ calls' = calls + 1
    /\ last' = [op |-> "getToken", token |-> tokenServiceGetToken(World),
                threw |-> FALSE]
    /\ UNCHANGED <<variant, cfg, pc, now, token, refreshToken, hasToken,
                   tokenInfo, refreshTimeoutId, tenMinuteTimeoutId,
                   redirectTimeoutId, timers, inflight, cookies, url,
                   location, popup, adoptedValid, refreshLog>>
    /\ UNCHANGED others

TokenServiceNext ==
    \/ ConstructTokenService
    \/ Tick
    \/ FireTimer
    \/ GetToken

TokenServiceSpec == TokenServiceInit /\ [][TokenServiceNext]_vars

----------------------------------------------------------------------------
(* Vocabulary of the properties *)

Pending(kind) == {t \in timers : t.kind = kind}

\* The token cannot be decoded (or there is none).
Undecodable(tok) == tok.kind \in {"none", "bad"}

\* The token carries an exp that has passed.
ExpPassed(tok) == tok.kind \in {"jwt", "nouser"} /\ tok.exp <= now

\* The last step handed a token to setTokens.
Adopting ==
    \/ last.op = "construct" /\ last.source \in {"url", "cookie"}
    \/ last.op = "refreshed" /\ last.result

----------------------------------------------------------------------------
(* C1 *)

\* C1: in the refresh-capable AuthService at most one refresh timer, one
\* ten-minute-warning timer and one redirect timer are pending in any
\* reachable state, and each pending timer is the one its handle names:
\* a re-arm cancelled whatever was armed before.
C1_OneTimerSet ==
    variant = "refresh" =>
        /\ \A k \in {"refresh", "ten", "redirect"} : Cardinality(Pending(k)) <= 1
        /\ Pending("five") = {}
        /\ \A t \in Pending("refresh") : t.id = refreshTimeoutId
        /\ \A t \in Pending("ten") : t.id = tenMinuteTimeoutId
        /\ \A t \in Pending("redirect") : t.id = redirectTimeoutId

\* A refresh response re-armed all three timers after the clock has moved
\* while another refresh request is still in flight.
C1_Witness ==
    /\ variant = "refresh"
    /\ last.op = "refreshed"
    /\ last.ok
    /\ now > 0
    /\ InFlight(World) > 0
    /\ \A k \in {"refresh", "ten", "redirect"} : Cardinality(Pending(k)) = 1

----------------------------------------------------------------------------
(* C2 *)

\* The token the last step received: from the query string, from the
\* cookie (read by the constructor when the URL has none) or from a refresh
\* response.
Received ==
    IF last.op = "refreshed" THEN last.adopted
    ELSE IF last.source = "url" THEN last.adopted
    ELSE cookies.token

\* C2: right after a token whose exp is <= now has reached the service (by
\* the query string, by the cookie or by a refresh response; the forbidden
\* page aside), getTokens() returns no token and, unless the disable flag is
\* set, the browser has been sent to the login page.
C2_ExpiredIsAbsentAndRedirects ==
    (/\ last.op \in {"construct", "refreshed"}
     /\ ~url.forbidden
     /\ ExpPassed(Received))
        => /\ getTokens(World).token = NoToken
           /\ cfg.disable \/ location = "login"

----------------------------------------------------------------------------
(* C3 *)

\* C3: no call of a public method (getTokens, getTokenInfo, showPopup,
\* tryToRefreshToken) made while the held token is missing or cannot be
\* decoded ends with an exception escaping to the caller.
C3_NoExceptionEscapes ==
    (/\ last.op \in {"getTokens", "getTokenInfo", "showPopup", "tryToRefreshToken"}
     /\ Undecodable(token))
        => ~last.threw

----------------------------------------------------------------------------
(* C4 *)

\* C4: whenever getTokens()/getToken() is called while the held token cannot
\* be decoded or its exp is <= now, the call returns no token (and no
\* refresh token), also for a token that was valid when it was adopted.
C4_GetTokensRechecksExpiry ==
    (last.op = "getTokens" /\ (Undecodable(token) \/ ExpPassed(token)))
        => /\ last.token = NoToken
           /\ last.refreshToken = NoRefresh

\* getTokens() returned nothing for a token that was adopted while valid and
\* whose exp has passed since.
C4_Witness ==
    /\ last.op = "getTokens"
    /\ last.token = NoToken
    /\ adoptedValid
    /\ token.kind = "jwt"
    /\ 0 < token.exp
    /\ token.exp <= now

----------------------------------------------------------------------------
(* C5 *)

\* C5 (as a property of every state): while the service holds a token, the
\* disable flag is unset and the browser is still on the application, the
\* navigation to the login page is still to come: a redirect timer is
\* pending, or a refresh request is in flight whose response may adopt a
\* token with a later expiry.  A state without either stays on the
\* application however fairly timers fire.  (A token without exp never
\* expires and is left out.)
C5_LoginStillToCome ==
    (/\ pc = "running"
     /\ hasToken
     /\ ~cfg.disable
     /\ location = "app"
     /\ token.kind # "noexp")
        => \/ Pending("redirect") # {}
           \/ InFlight(World) > 0

----------------------------------------------------------------------------
(* C6 *)

\* Seconds until expiry of the token adopted by the last step.
AdoptedSeconds == last.adopted.exp - now

\* C6: right after a decodable token has been adopted, in both scheduling
\* policies: if its secondsUntilExpiry is > 0 exactly one redirect timer is
\* pending, with delay secondsUntilExpiry and due at the token's exp; if its
\* secondsUntilExpiry is <= 0 no timer at all is pending.
C6_RedirectArmedAtExpiry ==
    (Adopting /\ last.ok)
        => IF AdoptedSeconds > 0
           THEN /\ Cardinality(Pending("redirect")) = 1
                /\ \A t \in Pending("redirect") :
                      /\ t.delay = AdoptedSeconds
                      /\ t.due = last.adopted.exp
           ELSE timers = {}

\* A refresh response is adopted inside the refresh window, with a refresh
\* token held and the ten-minute warning off, and the redirect is armed.
C6_Witness ==
    /\ Adopting
    /\ last.ok
    /\ last.op = "refreshed"
    /\ now > 0
    /\ AdoptedSeconds > 0
    /\ refreshToken # NoRefresh
    /\ ~cfg.showRenewBeforeTenMin
    /\ Pending("refresh") = {}
    /\ \E t \in Pending("redirect") : t.delay = AdoptedSeconds

----------------------------------------------------------------------------
(* C7 *)

\* The constructor found no token parameter, the page is not the forbidden
\* page and the persisted token is absent, expired or undecodable.
C7_Case ==
    /\ last.op = "construct"
    /\ last.source # "url"
    /\ ~Truthy(url.token)
    /\ ~url.forbidden
    /\ Undecodable(cookies.token) \/ ExpPassed(cookies.token)

\* C7: right after such an initialization hasToken is false and no timer is
\* armed; with the disable flag unset the browser has been sent to the login
\* page, with the disable flag set it is still on the application.
C7_NoTokenMeansLogin ==
    C7_Case =>
        /\ ~hasToken
        /\ timers = {}
        /\ location = IF cfg.disable THEN "app" ELSE "login"

\* The persisted token had expired and the browser was sent to login.
C7_Witness ==
    /\ C7_Case
    /\ ExpPassed(cookies.token)
    /\ ~cfg.disable
    /\ location = "login"
    /\ ~hasToken

----------------------------------------------------------------------------
(* C8 *)

\* The constructor ran on a page whose URL carried a token parameter.
C8_Case ==
    /\ last.op = "construct"
    /\ last.source = "url" \/ Truthy(url.token)

C8_UrlToken == IF last.source = "url" THEN last.adopted ELSE url.token

\* C8 as stated: after initialization on a URL with a token parameter the
\* token is persisted (and the refresh_token parameter under <key>_refresh),
\* the parameter is gone from the visible URL, hasToken is true and the
\* browser is still on the application.
C8_UrlTokenAdoptedAndStripped ==
    C8_Case =>
        /\ cookies.token = C8_UrlToken
        /\ last.source = "url" /\ last.refresh # NoRefresh
              => cookies.refresh = last.refresh
        /\ ~Truthy(url.token)
        /\ hasToken
        /\ location = "app"

\* C8 as amended: the refresh-capable class with the disable flag unset
\* persists the token and the refresh_token parameter, strips the query
\* string, sets hasToken and stays on the application; with the disable flag
\* set it does nothing.  The dual-warning class persists the token, sets
\* hasToken and stays, but leaves the URL as it is and stores no refresh
\* token.
C8_UrlTokenAdopted ==
    C8_Case =>
        /\ location = "app"
        /\ IF variant = "refresh"
           THEN IF cfg.disable
                THEN /\ ~hasToken
                     /\ token = NoToken
                     /\ Truthy(url.token)
                ELSE /\ hasToken
                     /\ token = last.adopted
                     /\ cookies.token = last.adopted
                     /\ last.refresh # NoRefresh => cookies.refresh = last.refresh
                     /\ url.token = NoToken
                     /\ url.refresh = NoRefresh
           ELSE /\ hasToken
                /\ token = last.adopted
                /\ cookies.token = last.adopted
                /\ cookies.refresh = NoRefresh
                /\ url.token = last.adopted

\* The refresh-capable class adopted token and refresh token from the URL
\* and stripped them.
C8_Witness ==
    /\ C8_Case
    /\ variant = "refresh"
    /\ last.source = "url"
    /\ last.refresh # NoRefresh
    /\ cookies.refresh = last.refresh
    /\ cookies.token = last.adopted
    /\ url.token = NoToken
    /\ hasToken

----------------------------------------------------------------------------
(* C9 *)

\* C9: hasToken is true only if a decodable token that was unexpired at its
\* adoption has been adopted, and it is false right after an adoption for
\* which setTokens returned false.
C9_HasTokenMeansAuthenticated ==
    /\ hasToken => adoptedValid
    /\ (Adopting /\ ~last.ok) => ~hasToken

----------------------------------------------------------------------------
(* C10 *)

\* C10: a refresh attempt resolves to true only if, right after it, the
\* access token of the response is the token getTokens() returns, is the
\* persisted token, and the redirect timer is armed for its expiry (and it
\* resolves to false when the response carried no access token).
C10_TrueMeansRefreshed ==
    last.op = "refreshed" =>
        IF last.result
        THEN /\ Truthy(last.adopted)
             /\ getTokens(World).token = last.adopted
             /\ cookies.token = last.adopted
             /\ \E t \in Pending("redirect") : t.due = last.adopted.exp
        ELSE ~Truthy(last.adopted)

----------------------------------------------------------------------------
(* C11 *)

\* C11: a refresh attempt whose request failed in transport or whose
\* response carried no access_token resolves to false and leaves no refresh
\* token in memory or in the store; from then on, until a refresh token is
\* adopted again, none is held, a call of tryToRefreshToken() resolves to
\* false without sending a request, and the refresh timer sends none either.
C11_FailedRefreshDisables ==
    /\ (last.op = "refreshed" /\ ~Truthy(last.adopted))
          => /\ ~last.result
             /\ refreshLog.failedSince
    /\ refreshLog.failedSince
          => /\ refreshToken = NoRefresh
             /\ cookies.refresh = NoRefresh
             /\ ~refreshLog.started
             /\ last.op = "tryToRefreshToken" => (~last.sent /\ ~last.result)

\* After a failed attempt the application called tryToRefreshToken() while a
\* token was held, and no request was sent.
C11_Witness ==
    /\ refreshLog.failedSince
    /\ last.op = "tryToRefreshToken"
    /\ ~last.sent
    /\ hasToken
    /\ InFlight(World) = 0

----------------------------------------------------------------------------
(* C12 *)

\* C12 as stated: between two adoptions the service starts at most one
\* refresh request by itself (at arm-time or from the refresh timer), and
\* once an attempt has failed it never starts one again.
C12_NoAutomaticRetry ==
    /\ refreshLog.sinceAdoption <= 1
    /\ refreshLog.everFailed => ~refreshLog.started

\* C12 as amended: between two adoptions the service starts at most one
\* refresh request by itself, and after a failed attempt it starts none
\* until the response of a request that was still in flight has brought a
\* new refresh token.
C12_NoRetryUntilReadopted ==
    /\ refreshLog.sinceAdoption <= 1
    /\ refreshLog.failedSince => ~refreshLog.started

\* The refresh timer fired after an attempt had failed, with a token held
\* and the clock advanced, and no request went out.
C12_Witness ==
    /\ variant = "refresh"
    /\ last.op = "timer"
    /\ last.kind = "refresh"
    /\ refreshLog.failedSince
    /\ ~refreshLog.started
    /\ refreshLog.sinceAdoption = 0
    /\ InFlight(World) = 0
    /\ hasToken

----------------------------------------------------------------------------
(* C13 *)

\* The last step ended an automatic refresh attempt without a new token: the
\* request started at arm-time or by the refresh timer failed in transport
\* or its response carried no access_token.
C13_AutomaticAttemptFailed ==
    /\ variant = "refresh"
    /\ last.op = "refreshed"
    /\ last.origin \in {"arm", "timer"}
    /\ ~last.result

\* C13: in the single-warning policy, right after an automatic refresh
\* attempt has failed or returned no new token the expiry popup is on
\* screen, for the attempt made at arm-time and for the one made by the
\* refresh timer, whatever showRenewBeforeTenMin is.
C13_FailedRefreshShowsPopup ==
    C13_AutomaticAttemptFailed => popup = "expiry"

----------------------------------------------------------------------------
(* C14 *)

\* The refresh-ahead window in minutes that C14 states for a configuration.
C14_StatedWindow ==
    IF ~cfg.refreshBeforeExpireGiven THEN 30
    ELSE IF cfg.refreshBeforeExpireInMinutes < 11 THEN 11
    ELSE IF cfg.refreshBeforeExpireInMinutes > 59 THEN 59
    ELSE cfg.refreshBeforeExpireInMinutes

\* C14: the window the scheduler uses is within [11, 59] minutes, is 11 for
\* every configured value below 11, 59 for every configured value above 59
\* and 30 for an unset value: a token adopted with more time left than any
\* window has its refresh timer armed that many minutes before its expiry.
C14_WindowClamped ==
    (/\ variant = "refresh"
     /\ last.op = "construct"
     /\ last.ok
     /\ AdoptedSeconds > 59 * 60)
        => /\ C14_StatedWindow \in 11..59
           /\ \E t \in Pending("refresh") :
                 t.delay = AdoptedSeconds - 60 * C14_StatedWindow

----------------------------------------------------------------------------
(* C15 *)

\* The effective refresh window in seconds.
C15_WindowSeconds == 60 * refreshBeforeMinutes(cfg.refreshBeforeExpireInMinutes)

\* C15: in the single-warning policy, right after a token has been adopted
\* with t seconds remaining and t > 60 * w for the effective window w: one
\* refresh timer is pending with delay t - 60 * w, one warning timer with
\* delay t - 600 if showRenewBeforeTenMin and none otherwise, and one
\* redirect timer with delay t.
C15_TimerDelays ==
    (/\ variant = "refresh"
     /\ Adopting
     /\ last.ok
     /\ AdoptedSeconds > C15_WindowSeconds)
        => /\ Cardinality(Pending("refresh")) = 1
           /\ \A t \in Pending("refresh") :
                 t.delay = AdoptedSeconds - C15_WindowSeconds
           /\ Cardinality(Pending("ten")) =
                 IF cfg.showRenewBeforeTenMin THEN 1 ELSE 0
           /\ \A t \in Pending("ten") : t.delay = AdoptedSeconds - 600
           /\ Cardinality(Pending("redirect")) = 1
           /\ \A t \in Pending("redirect") : t.delay = AdoptedSeconds

\* The scenario t = 3600, w = 30 with the warning enabled: the timers are
\* armed with delays 1800, 3000 and 3600.
C15_Witness ==
    /\ variant = "refresh"
    /\ Adopting
    /\ last.ok
    /\ AdoptedSeconds = 3600
    /\ C15_WindowSeconds = 1800
    /\ cfg.showRenewBeforeTenMin
    /\ \E t \in Pending("refresh") : t.delay = 1800
    /\ \E t \in Pending("ten") : t.delay = 3000
    /\ \E t \in Pending("redirect") : t.delay = 3600

----------------------------------------------------------------------------
(* C16 *)

\* The dual-warning class with both warnings switched off, before any call
\* of showPopup() by the application.
C16_WarningsOff ==
    /\ variant = "dual"
    /\ ~cfg.showRenewBeforeTenMin
    /\ ~cfg.showRenewBeforeFiveMin
    /\ calls = 0

\* C16 as stated: in the dual-warning policy with both flags false no
\* expiry popup is ever shown by the service itself and no warning timer is
\* pending, whatever lifetime the adopted token had left.
C16_NoPopupWhenOff ==
    C16_WarningsOff =>
        /\ popup = "none"
        /\ Pending("ten") = {}
        /\ Pending("five") = {}

\* C16 as amended: in the dual-warning policy a warning timer is armed only
\* if its own flag is true and the token has more than 600 seconds left at
\* arm-time; a token adopted with 600 seconds or less (and more than 0) has
\* the expiry popup shown at once whatever the flags are, and with both
\* flags false that is the only popup the service shows by itself.
C16_PopupOnlyWhenUnderTenMinutes ==
    /\ (variant = "dual" /\ Adopting /\ last.ok)
          => IF AdoptedSeconds > 600
             THEN /\ popup = "none"
                  /\ Cardinality(Pending("ten")) =
                        IF cfg.showRenewBeforeTenMin THEN 1 ELSE 0
                  /\ Cardinality(Pending("five")) =
                        IF cfg.showRenewBeforeFiveMin THEN 1 ELSE 0
             ELSE /\ popup = IF AdoptedSeconds > 0 THEN "expiry" ELSE "none"
                  /\ Pending("ten") = {}
                  /\ Pending("five") = {}
    /\ C16_WarningsOff
          => /\ Pending("ten") = {}
             /\ Pending("five") = {}
             /\ popup = "expiry" => (0 < token.exp /\ token.exp <= 600)

\* With both flags false a token with 600 seconds left was adopted and the
\* popup is shown; the clock has moved on since.
C16_Witness ==
    /\ C16_WarningsOff
    /\ popup = "expiry"
    /\ token.exp = 600
    /\ hasToken
    /\ now > 0

----------------------------------------------------------------------------
(* C17 *)

\* C17: in the dual-warning policy with showRenewBeforeFiveMin true, right
\* after a token has been adopted with more than 300 seconds remaining a
\* five-minute warning is pending, due 300 seconds before the token's exp;
\* this includes tokens adopted with between 300 and 600 seconds remaining.
C17_FiveMinuteWarningArmed ==
    (/\ variant = "dual"
     /\ cfg.showRenewBeforeFiveMin
     /\ Adopting
     /\ last.ok
     /\ AdoptedSeconds > 300)
        => \E t \in Pending("five") : t.due = last.adopted.exp - 300

----------------------------------------------------------------------------
(* C18 *)

\* C18: when logout() has sent the browser to <authURL>/logout, neither the
\* persisted token (<key>) nor the persisted refresh token (<key>_refresh)
\* is in the store any more.
C18_LogoutClearsStore ==
    last.op = "logout"
        => /\ location = "logout"
           /\ cookies.token = NoToken
           /\ cookies.refresh = NoRefresh

\* logout() was called while the refresh-capable class held a token and a
\* refresh token it had persisted; the store is empty and the browser is on
\* the logout page.
C18_Witness ==
    /\ last.op = "logout"
    /\ variant = "refresh"
    /\ hasToken
    /\ adoptedValid
    /\ refreshToken # NoRefresh
    /\ ~refreshLog.everFailed
    /\ cookies = [token |-> NoToken, refresh |-> NoRefresh]
    /\ location = "logout"

----------------------------------------------------------------------------
(* C19 *)

\* The constructor ran on a page without token parameter, so that the only
\* token it can have adopted is the persisted one.
C19_Case ==
    /\ last.op = "construct"
    /\ last.source # "url"
    /\ ~Truthy(url.token)

\* C19: after such an initialization hasToken is true or a timer is armed
\* only if the persisted token decodes and carries an exp greater than the
\* time of the load.
C19_PersistedTokenRevalidated ==
    (C19_Case /\ (hasToken \/ timers # {}))
        => /\ cookies.token.kind \in {"jwt", "nouser"}
           /\ cookies.token.exp > now

----------------------------------------------------------------------------
(* C20 *)

\* The constructor of the refresh-capable class ran on the forbidden page
\* with no token parameter in the URL.
C20_Case ==
    /\ variant = "refresh"
    /\ last.op = "construct"
    /\ url.forbidden
    /\ last.source # "url"

\* Where C20 says the browser is after such an initialization: on the base
\* URL for an absent, undecodable or expired persisted token, still on the
\* page for a persisted token whose exp is ahead.
C20_Lands(place) ==
    /\ (Undecodable(cookies.token) \/ ExpPassed(cookies.token))
          => location = place
    /\ (cookies.token.kind = "jwt" /\ cookies.token.exp > now)
          => location = "app"

----------------------------------------------------------------------------
(* C21: for every token string and refresh token string, saving it to the  *)
(* persisted store and loading it again returns the same string, in the    *)
(* cookie store and in local storage; the two strings are kept under       *)
(* <key> and <key>_refresh, and loading one never returns the other.       *)

C21_StoreRoundTrip ==
    /\ output.op = "getTokensFromCookie" =>
            /\ output.token = input.token
            /\ input.refreshToken # << >> =>
                    output.refreshToken = input.refreshToken
    /\ output.op = "getItem" => output.token = input.token

----------------------------------------------------------------------------
(* C22: decoding a token yields a payload only when the token has three    *)
(* dot-separated segments and its second segment is the base64url          *)
(* encoding of valid JSON; with fewer than three segments, malformed       *)
(* base64url or a payload that is not JSON, decoding yields no payload.    *)

C22_PayloadOnlyFromThreeSegments ==
    output.op = "decodeJWT" =>
        /\ output.payload # "null" =>
                /\ Len(input.token) = 3
                /\ input.token[2] \in {"object", "null"}
        /\ (\/ Len(input.token) < 3
            \/ input.token[2] \in {"text", "garbage", "empty"}) =>
                output.payload = "null"

\* What the code does for every number of segments: a payload exactly when
\* there is a second segment and it is the encoding of a JSON object.
C22_PayloadFromSecondSegment ==
    output.op = "decodeJWT" =>
        (output.payload # "null" <=>
            Len(input.token) >= 2 /\ input.token[2] = "object")

----------------------------------------------------------------------------
(* C23: for every decodable token with a future exp, getTokenInfo()        *)
(* reports inSeconds = exp - now (now in whole seconds) and inMinutes =    *)
(* floor(inSeconds / 60), computed anew at each call; and a decodable      *)
(* token is considered expired exactly when this inSeconds is <= 0.        *)

\* The held token decodes to a payload with exp.
C23_Decodable == decodeJWT(token).ok /\ decodeJWT(token).hasExp

C23_InfoIsExpMinusNow ==
    /\ (last.op = "getTokenInfo" /\ C23_Decodable /\ token.exp > now) =>
            /\ ~last.threw
            /\ ~last.info.nan
            /\ last.info.inSeconds = token.exp - now
            /\ last.info.inMinutes = (token.exp - now) \div 60
    /\ (last.op = "getTokens" /\ C23_Decodable) =>
            (last.token = NoToken <=> token.exp - now <= 0)

\* The same for payloads that carry a username as well.
C23_InfoIsExpMinusNowWithUser ==
    decodeJWT(token).hasUser => C23_InfoIsExpMinusNow

\* getTokenInfo() was called on a token adopted earlier, after the clock
\* had moved on, and the token had time left.
C23_Witness ==
    /\ last.op = "getTokenInfo"
    /\ ~last.threw
    /\ token.kind = "jwt"
    /\ now > 0
    /\ last.info.inSeconds = token.exp - now
    /\ last.info.inSeconds > 0

----------------------------------------------------------------------------
(* C24: every login or logout navigation targets                           *)
(* <authURL>/<kind>?next=<currentURL>, with at most one trailing slash of  *)
(* the configured authURL removed, followed by &database=<db> only when a  *)
(* database is configured and by &appName=<app> only when an application   *)
(* name is configured, in that order.                                      *)

C24_Configured(option) == option \notin {"undefined", ""}

\* The configured authURL without one trailing slash, if it has any.
C24_Trimmed(u) ==
    IF u[Len(u)] = "/" THEN SubSeq(u, 1, Len(u) - 1) ELSE u

C24_StatedHref ==
    C24_Trimmed(input.config.authURL)
        \o <<"/", input.type, "?next=">> \o input.href
        \o (IF C24_Configured(input.config.database)
            THEN <<"&database=", input.config.database>> ELSE << >>)
        \o (IF C24_Configured(input.config.application)
            THEN <<"&appName=", input.config.application>> ELSE << >>)

C24_AuthUrlShape ==
    output.op = "auth" => output.href = C24_StatedHref

\* The same, for configurations that give an application name.
C24_AuthUrlShapeWithApplication ==
    C24_Configured(input.config.application) => C24_AuthUrlShape

----------------------------------------------------------------------------
(* C25: for every partial configuration passed to provideAuthService, the  *)
(* configuration injected into AuthService has the user-supplied value for *)
(* each supplied key and the hardcoded default for every key not          *)
(* supplied, and the merge does not modify the object the user passed in.  *)

C25_MergedOverDefaults ==
    output.op = "provideAuthService" =>
        /\ \A k \in ConfigKeys :
                output.injected[k] =
                    IF input.config[k] # Undefined
                    THEN input.config[k]
                    ELSE defaultAuthServiceConfig[k]
        /\ output.config = input.config

\* The same for the merging provider and URLs given without trailing slash.
C25_MergedOverDefaultsNoSlash ==
    (/\ input.provider = "merging"
     /\ \A k \in {"baseURL", "apiURL"} :
            input.config[k] = Undefined \/ removeTrailingSlash(input.config[k]) = input.config[k])
        => C25_MergedOverDefaults

----------------------------------------------------------------------------
(* C26: every request sent by RequestService.makeRequest carries as bearer *)
(* token the token that AuthService holds at request time (after a silent  *)
(* refresh, the new token), and when AuthService has no valid token at     *)
(* request time (not logged in, or token expired) makeRequest fails with   *)
(* an error and sends no request.  `held` is what getTokens() answers at   *)
(* the call of makeRequest.                                                *)

C26_BearerIsCurrentToken ==
    http.made > 0 =>
        /\ http.attempts > 0 => http.bearer = http.held
        /\ ~Truthy(http.held) =>
                /\ http.settled = "rejected"
                /\ http.attempts = 0

\* The same for requests made while getTokens() answers what it answered
\* when the RequestService was constructed.
C26_BearerIsTokenAtConstruction ==
    http.held = requestService.token => C26_BearerIsCurrentToken

----------------------------------------------------------------------------
(* C27: when the HTTP request behind makeRequest keeps failing, the        *)
(* request is attempted 1 + retryCount times in total and makeRequest then *)
(* rejects to its caller with an error; makeRequest never resolves         *)
(* successfully for a request whose every attempt failed.                  *)

\* The promise of the latest makeRequest has settled after attempts that
\* all failed.
C27_EveryAttemptFailed ==
    /\ ~http.busy
    /\ http.attempts > 0
    /\ http.failures = http.attempts

C27_FailedRequestRejects ==
    C27_EveryAttemptFailed =>
        /\ http.attempts = 1 + http.retryCount
        /\ http.settled = "rejected"

\* The number of attempts alone.
C27_AttemptsCounted ==
    C27_EveryAttemptFailed => http.attempts = 1 + http.retryCount

----------------------------------------------------------------------------
(* C28: makeRequest fails with an error and sends no HTTP request when     *)
(* neither setSettings() nor customApiSettings has supplied API settings,  *)
(* and when the method is not one of GET, POST, PUT, PATCH.                *)

\* The latest makeRequest was called without settings from either side, or
\* with a method outside the four.
C28_Case ==
    /\ http.made > 0
    /\ \/ ~http.stored.set /\ ~http.custom.given
       \/ http.method \notin {"GET", "POST", "PUT", "PATCH"}

----------------------------------------------------------------------------
(* C29: settings passed to makeRequest as customApiSettings are the        *)
(* settings used for that one request for each of apiURL, retryCount and   *)
(* transformKeys (overriding the stored settings), and they leave the      *)
(* stored settings unchanged for later requests.  `stored` is              *)
(* this.apiSettings at the call of makeRequest.                            *)

\* The latest makeRequest was sent, with customApiSettings.
C29_Case == http.custom.given /\ http.attempts > 0

\* The API has answered it.
C29_Answered == http.value \in {"transformed", "as received"}

C29_CustomSettingsUsed ==
    C29_Case =>
        /\ "apiURL" \in http.custom.keys => http.apiURL = http.custom.apiURL
        /\ "retryCount" \in http.custom.keys =>
                http.retryCount = http.custom.retryCount
        /\ ("transformKeys" \in http.custom.keys /\ C29_Answered) =>
                (http.value = "transformed" <=> http.custom.transformKeys)
        /\ http.stored.set => requestService.apiSettings = http.stored

\* The same without the part on transformKeys.
C29_CustomUrlAndRetryUsed ==
    C29_Case =>
        /\ "apiURL" \in http.custom.keys => http.apiURL = http.custom.apiURL
        /\ "retryCount" \in http.custom.keys =>
                http.retryCount = http.custom.retryCount
        /\ http.stored.set => requestService.apiSettings = http.stored

----------------------------------------------------------------------------
(* C30: in the local-storage TokenService, getToken() returns no token     *)
(* once the held token's exp has passed or when the held token cannot be   *)
(* decoded.                                                                *)

C30_GetTokenRechecksExpiry ==
    (/\ variant = "local"
     /\ last.op = "getToken"
     /\ (Undecodable(token) \/ ExpPassed(token)))
        => last.token = NoToken

----------------------------------------------------------------------------
(* C31: when two refresh requests overlap, the failure of one never        *)
(* discards the refresh token adopted from the successful response of the  *)
(* other: once both are answered the service holds and persists the        *)
(* refresh token of the successful response.  The step looked at is the    *)
(* failure of a timer's or a caller's request that was in flight while the *)
(* response before it was adopted.                                         *)

C31_AdoptedWithOverlap ==
    /\ variant = "refresh"
    /\ last.op = "refreshed"
    /\ last.result
    /\ last.ok
    /\ last.refresh # NoRefresh
    /\ inflight["timer"] + inflight["user"] > 0

C31_OverlapFails ==
    /\ last'.op = "refreshed"
    /\ ~last'.result
    /\ last'.origin \in {"timer", "user"}

C31_FailureKeepsAdoptedRefreshToken ==
    [][(C31_AdoptedWithOverlap /\ C31_OverlapFails)
          => (/\ refreshToken' = last.refresh
              /\ cookies'.refresh = last.refresh)]_vars

----------------------------------------------------------------------------
(* C32: after logout() has been called the persisted store never again     *)
(* contains a token or a refresh token written by this page, even when a   *)
(* refresh request was in flight at the time of logout and its successful  *)
(* response is delivered afterwards.                                       *)

C32_StoreStaysEmptyAfterLogout ==
    (variant = "refresh" /\ location = "logout")
        => cookies = [token |-> NoToken, refresh |-> NoRefresh]

----------------------------------------------------------------------------
(* C33: a successful refresh never itself immediately starts a further     *)
(* refresh request; between two consecutive automatic refresh requests a   *)
(* refresh timer must fire.                                                *)

C33_RefreshSucceeded ==
    /\ variant = "refresh"
    /\ last.op = "refreshed"
    /\ last.result

C33_SuccessStartsNoRefresh ==
    C33_RefreshSucceeded => ~refreshLog.started

\* The part that holds: one adoption starts at most one request at once.
C33_OneImmediateRequestPerAdoption ==
    (variant = "refresh" /\ last.op \in {"construct", "refreshed"})
        => refreshLog.sinceAdoption <= 1

----------------------------------------------------------------------------
(* C34: a valid (decodable, unexpired) token held in memory or in the      *)
(* persisted store is never replaced by an undecodable or already expired  *)
(* token: when the adoption of a token from the URL parameter or from a    *)
(* refresh response fails or the token is expired, the token held before,  *)
(* hasToken and the persisted values are unchanged.                        *)

C34_Valid(tok) == tok.kind = "jwt" /\ tok.exp > now

\* The step adopts, from the URL or from a refresh response, a token that
\* cannot be decoded or is expired, or whose adoption fails.
C34_FailedAdoption ==
    /\ \/ last'.op = "construct" /\ last'.source = "url"
       \/ last'.op = "refreshed" /\ last'.result
    /\ \/ Undecodable(last'.adopted)
       \/ ExpPassed(last'.adopted)
       \/ ~last'.ok

C34_FailedAdoptionKeepsValidToken ==
    [][((C34_Valid(token) \/ C34_Valid(cookies.token)) /\ C34_FailedAdoption)
          => (/\ token' = token
              /\ hasToken' = hasToken
              /\ cookies' = cookies)]_vars

----------------------------------------------------------------------------
(* C35: whenever the service is Authenticated and logout has not been      *)
(* called, the token in memory equals the persisted token and the refresh  *)
(* token in memory equals the persisted <key>_refresh value (both absent   *)
(* or both the same string).                                               *)

C35_Authenticated ==
    /\ variant = "refresh"
    /\ Running
    /\ hasToken
    /\ C34_Valid(token)

C35_MemoryEqualsStore ==
    C35_Authenticated
        => (/\ token = cookies.token
            /\ refreshToken = cookies.refresh)

\* The part that holds: the access token.
C35_TokenEqualsStore ==
    C35_Authenticated => token = cookies.token

----------------------------------------------------------------------------
(* C36: token validity depends on exp alone: getToken()/getTokens()        *)
(* returns a token only if its payload carries an exp strictly greater     *)
(* than now (a payload without exp counts as expired), and a decodable     *)
(* token with a future exp is returned whatever its other fields are.      *)

C36_FutureExp(tok) == tok.kind \in {"jwt", "nouser"} /\ tok.exp > now

C36_OnlyWithFutureExp ==
    (last.op = "getTokens" /\ Truthy(last.token)) => C36_FutureExp(last.token)

C36_FutureExpIsValid ==
    (last.op = "getTokens" /\ C36_FutureExp(token)) => last.token = token

C36_ValidityIsExpAlone ==
    C36_OnlyWithFutureExp /\ C36_FutureExpIsValid

----------------------------------------------------------------------------
(* C37: in the single-warning policy every timer is armed with a strictly  *)
(* positive delay and, for one token, the refresh timer is due strictly    *)
(* before the ten-minute warning timer, which is due strictly before the   *)
(* redirect timer, for every configured refresh window including values    *)
(* outside [11, 59].                                                       *)

C37_DueBefore(first, second) ==
    \A a \in timers, b \in timers :
        (a.kind = first /\ b.kind = second) => a.due < b.due

C37_TimersOrdered ==
    variant = "refresh"
        => (/\ \A t \in timers : t.delay > 0
            /\ C37_DueBefore("refresh", "ten")
            /\ C37_DueBefore("ten", "redirect")
            /\ C37_DueBefore("refresh", "redirect"))

\* All three timers of one token are pending, under a configured window
\* below 11 minutes.
C37_Witness ==
    /\ variant = "refresh"
    /\ cfg.refreshBeforeExpireInMinutes \in 1..(MinRefreshBefore - 1)
    /\ \E a \in timers, b \in timers, c \in timers :
        /\ a.kind = "refresh" /\ a.id = refreshTimeoutId
        /\ b.kind = "ten" /\ b.id = tenMinuteTimeoutId
        /\ c.kind = "redirect" /\ c.id = redirectTimeoutId

\* The same under a configured window above 59 minutes.
C37_WitnessAbove ==
    /\ variant = "refresh"
    /\ cfg.refreshBeforeExpireInMinutes > MaxRefreshBefore
    /\ \E a \in timers, b \in timers, c \in timers :
        /\ a.kind = "refresh" /\ b.kind = "ten" /\ c.kind = "redirect"

----------------------------------------------------------------------------
(* C38: in the dual-warning policy, for a token adopted with t seconds     *)
(* remaining: if t > 600 the enabled warnings are due at t - 600 and       *)
(* t - 300 seconds and the redirect at t seconds, so the ten-minute        *)
(* warning precedes the five-minute warning, which precedes the redirect;  *)
(* if 0 < t <= 600 the warning popup is shown at arm-time and only the     *)
(* redirect timer is armed.                                                *)

\* Exactly the timers of `kind` that are meant to be pending are: one with
\* the given delay if enabled, none otherwise.
C38_Armed(kind, enabled, delay) ==
    /\ Cardinality(Pending(kind)) = IF enabled THEN 1 ELSE 0
    /\ \A t \in Pending(kind) : t.delay = delay /\ t.due = now + delay

C38_DualTimers ==
    (variant = "dual" /\ Adopting /\ last.ok /\ AdoptedSeconds > 0)
        => IF AdoptedSeconds > 600
           THEN /\ C38_Armed("ten", cfg.showRenewBeforeTenMin,
                             AdoptedSeconds - 600)
                /\ C38_Armed("five", cfg.showRenewBeforeFiveMin,
                             AdoptedSeconds - 300)
                /\ C38_Armed("redirect", TRUE, AdoptedSeconds)
                /\ C37_DueBefore("ten", "five")
                /\ C37_DueBefore("five", "redirect")
                /\ C37_DueBefore("ten", "redirect")
                /\ popup = "none"
           ELSE /\ popup = "expiry"
                /\ C38_Armed("redirect", TRUE, AdoptedSeconds)
                /\ timers = Pending("redirect")

\* Both warnings and the redirect are pending for a long-lived token.
C38_Witness ==
    /\ variant = "dual"
    /\ Adopting
    /\ last.ok
    /\ AdoptedSeconds > 600
    /\ Pending("ten") # {}
    /\ Pending("five") # {}
    /\ Pending("redirect") # {}

\* A token with ten minutes or less: the popup, and the redirect alone.
C38_WitnessShort ==
    /\ variant = "dual"
    /\ Adopting
    /\ last.ok
    /\ AdoptedSeconds > 0
    /\ AdoptedSeconds <= 600
    /\ popup = "expiry"
    /\ Pending("redirect") # {}

\* The same schedule in the local-storage TokenService, which has no flags.
C38_TokenServiceTimers ==
    (variant = "local" /\ last.op = "construct" /\ token.kind = "jwt"
        /\ token.exp - now > 0)
        => IF token.exp - now > 600
           THEN /\ C38_Armed("ten", TRUE, token.exp - now - 600)
                /\ C38_Armed("five", TRUE, token.exp - now - 300)
                /\ C38_Armed("redirect", TRUE, token.exp - now)
                /\ popup = "none"
           ELSE /\ popup = "expiry"
                /\ C38_Armed("redirect", TRUE, token.exp - now)
                /\ timers = Pending("redirect")

====
